---------------------------- MODULE Spec2Model ----------------------------
(***************************************************************************)
(* A model of the iTerm2 MCP bridge (src/index.ts): the marked-command     *)
(* protocol (extractMarkedContent), the automation channel client          *)
(* (runAppleScript), the session scripts (AS_HELPERS) run against a model  *)
(* of the terminal, and the tool handlers (the commands object).           *)
(*                                                                         *)
(* Text is modelled at character level: a string is a sequence of          *)
(* one-character strings.                                                  *)
(***************************************************************************)
EXTENDS Integers, Sequences, FiniteSets, TLC

(***************************************************************************)
(* Bounds of the model.                                                    *)
(***************************************************************************)
\* Number of pieces a raw content dump handed to extractMarkedContent is built from.
MaxPieces == 6

\* Number of tabs the terminal's window starts with, at most.
MaxTabs == 2

\* Number of times, in one behaviour, that the channel misbehaves: an attempt
\* outlives its timeout, or the channel itself fails.
MaxFaults == 4

\* The same, in the behaviours of a tool call.
MaxToolFaults == 1

(***************************************************************************)
(* JavaScript string primitives used by the source.                        *)
(***************************************************************************)
SetMin(S) == CHOOSE x \in S : \A y \in S : x <= y

\* String.prototype.indexOf: 0-based index of the first occurrence, or -1.
IndexOf(s, t) ==
    LET hits == { i \in 1..(Len(s) - Len(t) + 1) :
                     t # <<>> => (s[i] = t[1] /\ SubSeq(s, i, i + Len(t) - 1) = t) }
    IN  IF hits = {} THEN -1 ELSE SetMin(hits) - 1

\* String.prototype.includes.
Includes(s, t) == IndexOf(s, t) # -1

\* String.prototype.substring(from): the text from 0-based index from to the end.
SubstringFrom(s, from) == SubSeq(s, from + 1, Len(s))

\* String.prototype.substring(from, to): 0-based, to exclusive.
Substring(s, from, to) == SubSeq(s, from + 1, to)

WhiteSpace == {" ", "\n", "\t", "\r"}

\* String.prototype.trim: strips leading and trailing white space.
Trim(s) ==
    IF \A i \in 1..Len(s) : s[i] \in WhiteSpace THEN <<>>
    ELSE LET first == CHOOSE i \in 1..Len(s) :
                          s[i] \notin WhiteSpace /\ \A j \in 1..(i - 1) : s[j] \in WhiteSpace
             last  == CHOOSE i \in 1..Len(s) :
                          s[i] \notin WhiteSpace /\ \A j \in (i + 1)..Len(s) : s[j] \in WhiteSpace
         IN  SubSeq(s, first, last)

Digits == <<"0", "1", "2", "3", "4", "5", "6", "7", "8", "9">>

IsDigit(c) == \E d \in 1..10 : Digits[d] = c

DigitValue(c) == (CHOOSE d \in 1..10 : Digits[d] = c) - 1

\* parseInt(text, 10) on a text made of decimal digits only.
RECURSIVE ParseInt(_)
ParseInt(ds) ==
    IF ds = <<>> THEN 0
    ELSE 10 * ParseInt(SubSeq(ds, 1, Len(ds) - 1)) + DigitValue(ds[Len(ds)])

\* Concatenation of a sequence of strings.
RECURSIVE Concat(_)
Concat(ss) == IF ss = <<>> THEN <<>> ELSE Head(ss) \o Concat(Tail(ss))

(***************************************************************************)
(* Markers (generateMarker) and the two tokens built from one.             *)
(***************************************************************************)
\* crypto.randomBytes(4).toString('hex'): eight hex digits; two of the values.
HexValues ==
    { <<"0", "0", "0", "0", "0", "0", "0", "a">>,
      <<"0", "0", "0", "0", "0", "0", "0", "b">> }

\* Date.now() rendered in decimal: thirteen digits; two of the values.
NowValues ==
    { <<"1", "7", "0", "0", "0", "0", "0", "0", "0", "0", "0", "0", "1">>,
      <<"1", "7", "0", "0", "0", "0", "0", "0", "0", "0", "0", "0", "2">> }

generateMarker(hex, now) == <<"=", "=", "=">> \o hex \o <<"-">> \o now \o <<"=", "=", "=">>

\* One reading of the clock.
Now == CHOOSE n \in NowValues : TRUE

Markers == { generateMarker(h, n) : h \in HexValues, n \in NowValues }

StartSuffix == <<"-", "S", "T", "A", "R", "T">>

EndSuffix == <<"-", "E", "N", "D", ":">>

\* `${marker}-START`
StartMarker(marker) == marker \o StartSuffix

\* The literal part of the pattern `${marker}-END:(\d+)`.
EndPrefix(marker) == marker \o EndSuffix

(***************************************************************************)
(* extractMarkedContent                                                    *)
(***************************************************************************)
\* afterStart.match(new RegExp(`${marker}-END:(\\d+)`)): the leftmost place where
\* the literal part is followed by at least one digit; the group is the longest
\* run of digits there.  A marker holds no character that is special in a regular
\* expression, so its part of the pattern matches literally.
\* Result: [found, text (endMatch[0]), group (endMatch[1])].
MatchEndMarker(s, marker) ==
    LET lit  == EndPrefix(marker)
        n    == Len(lit)
        hits == { i \in 1..(Len(s) - n) :
                     /\ s[i] = lit[1]
                     /\ SubSeq(s, i, i + n - 1) = lit
                     /\ IsDigit(s[i + n]) }
    IN  IF hits = {} THEN [found |-> FALSE, text |-> <<>>, group |-> <<>>]
        ELSE LET p    == SetMin(hits)
                 d0   == p + n
                 stop == { j \in d0..(Len(s) + 1) : j = Len(s) + 1 \/ ~IsDigit(s[j]) }
                 dEnd == SetMin(stop) - 1
             IN  [found |-> TRUE,
                  text  |-> SubSeq(s, p, dEnd),
                  group |-> SubSeq(s, d0, dEnd)]

\* A variant of extractMarkedContent that searches the whole dump for the end
\* marker and so accepts one printed before the start marker.
extractMarkedContentAnyEnd(fullContent, marker) ==
    LET startMarker == StartMarker(marker)
        startIndex  == IndexOf(fullContent, startMarker)
        afterStart  == SubstringFrom(fullContent, startIndex + Len(startMarker))
        endMatch    == MatchEndMarker(fullContent, marker)
    IN  IF startIndex = -1 THEN [content |-> <<>>, exitCode |-> -1]
        ELSE IF ~endMatch.found THEN [content |-> afterStart, exitCode |-> -1]
        ELSE [content  |-> Trim(Substring(afterStart, 0, IndexOf(afterStart, endMatch.text))),
              exitCode |-> ParseInt(endMatch.group)]

\* A variant of extractMarkedContent that trims the partial output too.
extractMarkedContentTrimPartial(fullContent, marker) ==
    LET startMarker == StartMarker(marker)
        startIndex  == IndexOf(fullContent, startMarker)
        afterStart  == SubstringFrom(fullContent, startIndex + Len(startMarker))
        endMatch    == MatchEndMarker(afterStart, marker)
    IN  IF startIndex = -1 THEN [content |-> <<>>, exitCode |-> -1]
        ELSE IF ~endMatch.found THEN [content |-> Trim(afterStart), exitCode |-> -1]
        ELSE [content  |-> Trim(Substring(afterStart, 0, IndexOf(afterStart, endMatch.text))),
              exitCode |-> ParseInt(endMatch.group)]

\* A variant of extractMarkedContent that leaves the completed output untrimmed.
extractMarkedContentNoTrim(fullContent, marker) ==
    LET startMarker == StartMarker(marker)
        startIndex  == IndexOf(fullContent, startMarker)
        afterStart  == SubstringFrom(fullContent, startIndex + Len(startMarker))
        endMatch    == MatchEndMarker(afterStart, marker)
    IN  IF startIndex = -1 THEN [content |-> <<>>, exitCode |-> -1]
        ELSE IF ~endMatch.found THEN [content |-> afterStart, exitCode |-> -1]
        ELSE [content  |-> Substring(afterStart, 0, IndexOf(afterStart, endMatch.text)),
              exitCode |-> ParseInt(endMatch.group)]

\* A variant that returns no content when the END token is missing.
extractMarkedContentNoPartial(fullContent, marker) ==
    LET startMarker == StartMarker(marker)
        startIndex  == IndexOf(fullContent, startMarker)
        afterStart  == SubstringFrom(fullContent, startIndex + Len(startMarker))
        endMatch    == MatchEndMarker(afterStart, marker)
    IN  IF startIndex = -1 \/ ~endMatch.found THEN [content |-> <<>>, exitCode |-> -1]
        ELSE [content  |-> Trim(Substring(afterStart, 0, IndexOf(afterStart, endMatch.text))),
              exitCode |-> ParseInt(endMatch.group)]

extractMarkedContent(fullContent, marker) ==
    LET startMarker == StartMarker(marker)
        startIndex  == IndexOf(fullContent, startMarker)
        afterStart  == SubstringFrom(fullContent, startIndex + Len(startMarker))
        endMatch    == MatchEndMarker(afterStart, marker)
    IN  IF startIndex = -1 THEN [content |-> <<>>, exitCode |-> -1]
        ELSE IF ~endMatch.found THEN [content |-> afterStart, exitCode |-> -1]
        ELSE [content  |-> Trim(Substring(afterStart, 0, IndexOf(afterStart, endMatch.text))),
              exitCode |-> ParseInt(endMatch.group)]


(***************************************************************************)
(* Program texts.  Fixed phrases of the program's scripts and messages are *)
(* written as single elements of a text; what the program computes         *)
(* (numbers, markers, tab contents) is spelled out in characters.          *)
(***************************************************************************)
\* Decimal rendering of an integer, as template literals and AppleScript's & do.
RECURSIVE NatToStr(_)
NatToStr(n) == IF n < 10 THEN <<Digits[n + 1]>> ELSE NatToStr(n \div 10) \o <<Digits[(n % 10) + 1]>>

IntToStr(n) == IF n < 0 THEN <<"-">> \o NatToStr(-n) ELSE NatToStr(n)

\* AS_HELPERS.baseITermScript
baseITermScript ==
    << "tell application \"iTerm2\" if application \"iTerm2\" is ", "not running",
       " then error \"iTerm2 is ", "not running",
       "\" end if set numWindows to count of windows if numWindows is 0 then error \"",
       "No iTerm2 windows are open", "\" end if " >>

\* The bounds check shared by the tab scripts.
TabGuardSource(tabIndex) ==
    << "tell window 1 set numTabs to count of tabs if " >> \o IntToStr(tabIndex + 1)
       \o << " > numTabs then error \"", "Tab index out of range", ". Requested " >>
       \o IntToStr(tabIndex + 1)
       \o << ", but only \" & numTabs & \" tabs exist.\" end if tell tab " >>
       \o IntToStr(tabIndex + 1)

\* AS_HELPERS.getTabCount
getTabCountScript ==
    [kind   |-> "getTabCount",
     tab    |-> 0,
     source |-> baseITermScript
                  \o << "tell current window return count of tabs end tell end tell" >>]

\* A variant of the content script that addresses tab tabIndex, not tabIndex + 1.
getTabContentScriptOffByOne(tabIndex) ==
    [kind   |-> "getTabContent",
     tab    |-> tabIndex,
     source |-> baseITermScript \o TabGuardSource(tabIndex)
                  \o << " tell current session return contents end tell end tell end tell end tell" >>]

\* AS_HELPERS.getTabContent(tabIndex): it addresses tab tabIndex + 1.
getTabContentScript(tabIndex) ==
    [kind   |-> "getTabContent",
     tab    |-> tabIndex + 1,
     source |-> baseITermScript \o TabGuardSource(tabIndex)
                  \o << " tell current session return contents end tell end tell end tell end tell" >>]

\* str.replace(/c/g, by): every element c of the text replaced by the text by.
RECURSIVE ReplaceAll(_, _, _)
ReplaceAll(str, c, by) ==
    IF str = <<>> THEN <<>>
    ELSE IF Len(str) = 1 THEN (IF str[1] = c THEN by ELSE str)
    ELSE LET half == Len(str) \div 2
         IN  ReplaceAll(SubSeq(str, 1, half), c, by)
                \o ReplaceAll(SubSeq(str, half + 1, Len(str)), c, by)

\* The characters outside ASCII that the model's texts use, each written as one
\* element, with the four hex digits of its char code.
NonAscii == { "U+00E9" }

CharCodeHex(c) == << "0", "0", "e", "9" >>

\* .replace(/[^\x00-\x7F]/g, char => '\\u' + hex4(char))
RECURSIVE EscapeNonAscii(_)
EscapeNonAscii(str) ==
    IF str = <<>> THEN <<>>
    ELSE IF Len(str) = 1
         THEN (IF str[1] \in NonAscii THEN << "\\", "u" >> \o CharCodeHex(str[1]) ELSE str)
    ELSE LET half == Len(str) \div 2
         IN  EscapeNonAscii(SubSeq(str, 1, half))
                \o EscapeNonAscii(SubSeq(str, half + 1, Len(str)))

\* escapeForAppleScript, for a string argument: the replacements in source order.
escapeForAppleScript(str) ==
    LET s1 == ReplaceAll(str, "\\", << "\\", "\\" >>)
        s2 == ReplaceAll(s1, "\"", << "\\", "\"" >>)
        s3 == ReplaceAll(s2, "'", << "'", "\\", "'", "'" >>)
        s4 == ReplaceAll(s3, "\n", << "\\", "n" >>)
        s5 == ReplaceAll(s4, "\r", << "\\", "r" >>)
        s6 == ReplaceAll(s5, "\t", << "\\", "t" >>)
    IN  EscapeNonAscii(s6)

\* A variant of the template that goes to the tab without the bounds check.
sessionTemplateNoGuard(tabIndex, operation) ==
    [kind   |-> "session",
     tab    |-> tabIndex + 1,
     op     |-> operation,
     source |-> baseITermScript \o << "tell window 1 tell tab " >> \o IntToStr(tabIndex + 1)
                  \o << " tell current session " >> \o operation
                  \o << " end tell end tell end tell end tell" >>]

\* AS_HELPERS.sessionTemplate(tabIndex, operation)
sessionTemplate(tabIndex, operation) ==
    [kind   |-> "session",
     tab    |-> tabIndex + 1,
     op     |-> operation,
     source |-> baseITermScript \o TabGuardSource(tabIndex)
                  \o << " tell current session " >> \o operation
                  \o << " end tell end tell end tell end tell" >>]

\* AS_HELPERS.sendCommand(tabIndex, command), for a command of one line.
sendCommand(tabIndex, command) ==
    sessionTemplate(tabIndex,
        << "write text ", "\"" >> \o escapeForAppleScript(command) \o << "\"" >>)

\* A variant that echoes $? itself in the END token, without capturing it first.
MarkedCommandNoCapture(command, marker) ==
    << "e", "c", "h", "o", " ", "\"" >> \o marker
       \o << "-", "S", "T", "A", "R", "T", "\"", ";", " " >> \o command
       \o << ";", " ", "e", "c", "h", "o", " ", "\"" >> \o marker
       \o << "-", "E", "N", "D", ":", "$", "?", "\"" >>

\* `echo "${marker}-START"; ${command}; RESULT=$?; echo "${marker}-END:$RESULT"`
MarkedCommand(command, marker) ==
    << "e", "c", "h", "o", " ", "\"" >> \o marker
       \o << "-", "S", "T", "A", "R", "T", "\"", ";", " " >> \o command
       \o << ";", " ", "R", "E", "S", "U", "L", "T", "=", "$", "?", ";", " ",
             "e", "c", "h", "o", " ", "\"" >> \o marker
       \o << "-", "E", "N", "D", ":", "$", "R", "E", "S", "U", "L", "T", "\"" >>

\* AS_HELPERS.sendMarkedCommand(tabIndex, command, marker)
sendMarkedCommand(tabIndex, command, marker) ==
    sendCommand(tabIndex, MarkedCommand(command, marker))

\* AS_HELPERS.getTabInfo(tabIndex)
getTabInfoScript(tabIndex) ==
    [kind   |-> "getTabInfo",
     tab    |-> tabIndex + 1,
     source |-> baseITermScript \o TabGuardSource(tabIndex)
                  \o << " set tabName to \"Unknown\" try set tabName to name end try",
                        " tell current session set tabContent to contents",
                        " set lastLine to last paragraph of tabContent",
                        " set hasPrompt to lastLine ends with \"%\" or lastLine ends with \"$\"",
                        " or lastLine ends with \">\" return \"", "TAB_NAME:",
                        "\" & tabName & \"", "\n", "TAB_IS_RUNNING:",
                        "\" & (not hasPrompt) & \"", "\n", "TAB_CONTENT:",
                        "\" & tabContent end tell end tell end tell end tell" >>]

\* AS_HELPERS.createNewTab
createNewTabScript ==
    [kind   |-> "createNewTab",
     tab    |-> 0,
     source |-> baseITermScript
                  \o << "tell current window create tab with default profile end tell end tell" >>]

HexDigits == << "0", "1", "2", "3", "4", "5", "6", "7", "8", "9", "a", "b", "c", "d", "e", "f" >>

\* Number.prototype.toString(16), for a number from 0 to 255.
ToString16(n) ==
    IF n < 16 THEN << HexDigits[n + 1] >>
    ELSE << HexDigits[(n \div 16) + 1], HexDigits[(n % 16) + 1] >>

\* AS_HELPERS.sendControlChar(tabIndex, controlCode)
sendControlChar(tabIndex, controlCode) ==
    sessionTemplate(tabIndex, << "write hex " >> \o ToString16(controlCode))

(***************************************************************************)
(* The terminal application, as the scripts see it: whether it runs, how   *)
(* many windows it has, and the tabs of its front window with their text.  *)
(***************************************************************************)
NoWorld == [running |-> FALSE, windows |-> 0, tabs |-> <<>>]

\* The shell's prompt.
Prompt == << "$", " " >>

\* The error AppleScript raises for `tell tab n` when there is no such tab.
CantGetTab(n) == << "execution error: iTerm2 got an error: Can't get tab " >> \o IntToStr(n)
                    \o << " of window 1. Invalid index. (-1719)" >>

\* The error raised by the script's own bounds check.
TabOutOfRange(n, numTabs) ==
    << "execution error: ", "Tab index out of range", ". Requested " >> \o IntToStr(n)
       \o << ", but only " >> \o IntToStr(numTabs) \o << " tabs exist.", " (-2700)" >>

AppNotRunning == << "execution error: iTerm2 is ", "not running", " (-2700)" >>

NoWindowsOpen == << "execution error: ", "No iTerm2 windows are open", " (-2700)" >>

\* AppleScript's `tab n`: n >= 1 counts from the front, n <= -1 from the back,
\* and 0 is no element.  0 stands for "no such tab".
TabAt(n, numTabs) ==
    IF n >= 1 /\ n <= numTabs THEN n
    ELSE IF n <= -1 /\ numTabs + 1 + n >= 1 THEN numTabs + 1 + n
    ELSE 0

\* The positions of a text, in order.
Positions(str) == [i \in 1..Len(str) |-> i]

\* What /bin/sh makes of text standing between the single quotes of
\* osascript -e '...': the four characters '\'' leave the quotes, add a quote
\* and enter them again; a single quote of any other kind ends the word early.
ShellUnquote(str) ==
    LET pat(i)   == /\ i >= 1 /\ i + 3 <= Len(str)
                    /\ str[i] = "'" /\ str[i + 1] = "\\"
                    /\ str[i + 2] = "'" /\ str[i + 3] = "'"
        \* the first of the run of patterns, three apart, that ends at i
        first(i) == SetMin({ j \in 1..i : /\ (i - j) % 3 = 0
                                         /\ \A m \in j..i : (m - j) % 3 = 0 => pat(m) })
        real(i)  == pat(i) /\ ((i - first(i)) \div 3) % 2 = 0
        inside(i) == \E j \in { i - 3, i - 2, i - 1 } : real(j)
        kept     == SelectSeq(Positions(str), LAMBDA i : ~inside(i))
    IN  [ok   |-> \A i \in 1..Len(str) : str[i] = "'" => (real(i) \/ inside(i)),
         text |-> [k \in 1..Len(kept) |-> str[kept[k]]]]

\* The text an AppleScript string literal denotes: \\ \" \n \r \t are its
\* escapes; any other backslash pair, or a bare double quote, does not compile.
DecodeLiteral(lit) ==
    LET \* the backslashes that stand immediately before position i
        run(i)     == CHOOSE k \in 0..(i - 1) :
                          /\ \A j \in (i - k)..(i - 1) : lit[j] = "\\"
                          /\ (i - k = 1 \/ lit[i - k - 1] # "\\")
        escapes(i) == lit[i] = "\\" /\ run(i) % 2 = 0
        escaped(i) == i > 1 /\ escapes(i - 1)
        kept       == SelectSeq(Positions(lit), LAMBDA i : ~escapes(i))
        char(i)    == IF ~escaped(i) THEN lit[i]
                      ELSE CASE lit[i] = "n" -> "\n"
                             [] lit[i] = "r" -> "\r"
                             [] lit[i] = "t" -> "\t"
                             [] OTHER -> lit[i]
    IN  [ok   |-> \A i \in 1..Len(lit) :
                      /\ escapes(i) => (i < Len(lit) /\ lit[i + 1] \in {"\\", "\"", "n", "r", "t"})
                      /\ (lit[i] = "\"") => escaped(i),
         text |-> [k \in 1..Len(kept) |-> char(kept[k])]]

\* script.replace(/'/g, "'\\''"): the script made fit to stand between the single
\* quotes of the command line (line 138).
ShellQuote(str) == ReplaceAll(str, "'", << "'", "\\", "'", "'" >>)

\* The text of the literal of a `write text "..."` operation, as osascript gets
\* it from the command line.
WrittenText(op) ==
    LET word == ShellUnquote(ShellQuote(SubSeq(op, 3, Len(op) - 1)))
        lit  == DecodeLiteral(word.text)
    IN  [ok |-> word.ok /\ lit.ok, text |-> lit.text]

SyntaxError == << "syntax error: Expected end of line but found unknown token. (-2741)" >>

\* `write text "..."` in a session: the text and a newline are typed into the
\* tab, where the terminal echoes them and the shell takes them as a command line.
WriteText(w, n, text) ==
    [w EXCEPT !.tabs[n].content = @ \o text \o << "\n" >>,
              !.tabs[n].jobs    = Append(@, [line |-> text, started |-> FALSE])]

\* The byte a text of hex digits stands for.
HexValue(hex) ==
    LET digit(c) == (CHOOSE i \in 1..16 : HexDigits[i] = c) - 1
    IN  IF Len(hex) = 1 THEN digit(hex[1]) ELSE 16 * digit(hex[1]) + digit(hex[2])

\* The byte of Control-C.
Interrupt == 3

\* `write hex ...` in a session: the byte goes to the tab as if typed.  The
\* interrupt byte ends the command the tab is running: the rest of its command
\* line is given up, and the shell prompts again.
WriteHex(w, n, byte) ==
    LET tab == w.tabs[n]
    IN  IF byte = Interrupt /\ tab.jobs # <<>> /\ Head(tab.jobs).started
        THEN [w EXCEPT !.tabs[n].ctl     = Append(@, byte),
                       !.tabs[n].content = @ \o << "^", "C", "\n" >> \o Prompt,
                       !.tabs[n].jobs    = Tail(@)]
        ELSE [w EXCEPT !.tabs[n].ctl = Append(@, byte)]

\* `last paragraph of tabContent`: what follows the last line break.
LastParagraph(content) ==
    LET breaks == { i \in 1..Len(content) : content[i] \in {"\n", "\r"} }
        last   == IF breaks = {} THEN 0
                  ELSE CHOOSE i \in breaks : \A j \in (i + 1)..Len(content) : j \notin breaks
    IN  SubSeq(content, last + 1, Len(content))

\* What the getTabInfo script returns for a tab.
TabInfoText(tab) ==
    LET lastLine  == LastParagraph(tab.content)
        hasPrompt == lastLine # <<>> /\ lastLine[Len(lastLine)] \in {"%", "$", ">"}
    IN  << "TAB_NAME:" >> \o tab.name
           \o << "\n", "TAB_IS_RUNNING:", IF hasPrompt THEN "false" ELSE "true" >>
           \o << "\n", "TAB_CONTENT:" >> \o tab.content

\* Whether a session operation writes a byte rather than a text.
IsWriteHex(op) == op[1] = "write hex "

\* The body of a tab script, once its bounds check has passed, on tab n.
RunOnTab(script, w, n) ==
    IF script.kind = "getTabContent"
    THEN [ok |-> TRUE, text |-> w.tabs[n].content \o << "\n" >>, world |-> w]
    ELSE IF script.kind = "getTabInfo"
    THEN [ok |-> TRUE, text |-> TabInfoText(w.tabs[n]) \o << "\n" >>, world |-> w]
    ELSE IF IsWriteHex(script.op)
    THEN [ok |-> TRUE, text |-> << "\n" >>,
          world |-> WriteHex(w, n, HexValue(SubSeq(script.op, 2, Len(script.op))))]
    ELSE [ok |-> TRUE, text |-> << "\n" >>, world |-> WriteText(w, n, WrittenText(script.op).text)]

\* Whether osascript can compile the script: its string literals must be well formed.
Compiles(script) ==
    (script.kind = "session" /\ ~IsWriteHex(script.op)) => WrittenText(script.op).ok

\* Whether the script carries the bounds check on its tab.
HasTabGuard(script) == Includes(script.source, << "Tab index out of range" >>)

\* The name of the k-th tab opened in the window.
TabName(k) == << "z", "s", "h", " " >> \o IntToStr(k)

\* A tab just opened: the shell's prompt.
NewTab(k) == [name |-> TabName(k), content |-> Prompt, jobs |-> <<>>, ctl |-> <<>>]

\* What osascript does with a script: how it exits (ok, with stdout; or not, with
\* stderr), and the terminal it leaves behind.
RunScript(script, w) ==
    LET numTabs == Len(w.tabs)
    IN  IF ~Compiles(script) THEN [ok |-> FALSE, text |-> SyntaxError, world |-> w]
        ELSE IF ~w.running THEN [ok |-> FALSE, text |-> AppNotRunning, world |-> w]
        ELSE IF w.windows = 0 THEN [ok |-> FALSE, text |-> NoWindowsOpen, world |-> w]
        ELSE IF script.kind = "getTabCount"
             THEN [ok |-> TRUE, text |-> IntToStr(numTabs) \o <<"\n">>, world |-> w]
        ELSE IF script.kind = "createNewTab"
             THEN [ok |-> TRUE, text |-> << "tab id", "\n" >>,
                   world |-> [w EXCEPT !.tabs = Append(@, NewTab(numTabs + 1))]]
        ELSE IF HasTabGuard(script) /\ script.tab > numTabs
             THEN [ok |-> FALSE, text |-> TabOutOfRange(script.tab, numTabs), world |-> w]
        ELSE IF TabAt(script.tab, numTabs) = 0
             THEN [ok |-> FALSE, text |-> CantGetTab(script.tab), world |-> w]
        ELSE RunOnTab(script, w, TabAt(script.tab, numTabs))

(***************************************************************************)
(* runAppleScript                                                          *)
(***************************************************************************)
\* retries = 2, the default every caller uses.
DefaultRetries == 2

\* The message of the error child_process.exec rejects with when the command
\* exits with a failure: `Command failed: ${cmd}\n${stderr}`, where cmd is the
\* whole command line, the script included.
CommandFailed(script, stderr) ==
    << "Command failed: ", "osascript -e '" >> \o ShellQuote(script.source)
       \o << "'", "\n" >> \o stderr

\* The message of an exec error that is not an exit status: stdout larger than
\* exec's maxBuffer.
MaxBufferExceeded == << "stdout maxBuffer length exceeded" >>

\* The failures of the channel itself, whatever the script does: the connection
\* to the application breaks, or exec gives up on the size of the output.
ChannelFaults == {"connection", "maxBuffer"}

ConnectionInvalid ==
    << "execution error: iTerm2 got an error: ", "connection is invalid", ". (-609)" >>

FaultMessage(script, fault) ==
    IF fault = "connection" THEN CommandFailed(script, ConnectionInvalid) ELSE MaxBufferExceeded

\* Whether the error the channel reported (what follows the command line in the
\* message) is one of the retryable ones: application not running, stale connection.
ReportedTransient(message) ==
    LET nl     == IndexOf(message, << "\n" >>)
        stderr == IF nl = -1 THEN message ELSE SubstringFrom(message, nl + 1)
    IN  \/ Includes(stderr, << "No such app" >>)
        \/ Includes(stderr, << "connection is invalid" >>)
        \/ Includes(stderr, << "not running" >>)

\* The test of lines 145-147 on error.message.
IsTransient(message) ==
    \/ Includes(message, << "No such app" >>)
    \/ Includes(message, << "connection is invalid" >>)
    \/ Includes(message, << "not running" >>)

(***************************************************************************)
(* State.                                                                  *)
(***************************************************************************)
VARIABLES
    \* extractMarkedContent applied to one raw content dump:
    xMarker,    \* the marker argument
    xPieces,    \* the fullContent argument, as the pieces it is built from
    xResult,    \* the returned { content, exitCode }
    xpc         \* "input" before the call, "extracted" after it

extractVars == <<xMarker, xPieces, xResult, xpc>>

VARIABLES
    \* runAppleScript and the terminal:
    calls,      \* the promises returned by runAppleScript, in the order of the calls
    attempts,   \* every executeWithRetry activation, in the order they started
    world,      \* the terminal application
    faults      \* how often the channel has misbehaved

channelVars == <<calls, attempts, world, faults>>

VARIABLES
    \* one tool call:
    req,        \* the request: the tool's name and its arguments
    pc,         \* where its handler stands
    hMarker,    \* the handler's marker
    loc,        \* the handler's other local variables
    resp        \* the text of the response

toolVars == <<req, pc, hMarker, loc, resp>>

VARIABLES
    \* two invocations of run_command_blocking served at the same time:
    inv         \* for each of them, where its handler stands and its locals

pairVars == <<inv>>

VARIABLES
    \* escapeForAppleScript applied to one string, and the way of the result
    \* through the command line to AppleScript:
    esc         \* the string, and what became of it

escapeVars == <<esc>>

VARIABLES
    \* the file system:
    files       \* the temporary files of commands that are on disk

fileVars == <<files>>

VARIABLES
    \* trimOutput applied to one text:
    trim        \* the text, the size allowed, and the result

trimVars == <<trim>>

vars == <<extractVars, channelVars, toolVars, pairVars, escapeVars, fileVars, trimVars>>

(***************************************************************************)
(* Raw content dumps for extractMarkedContent: any sequence of at most     *)
(* MaxPieces pieces, each one of: the marker's START token ("S"), the      *)
(* literal part of its END token ("E"), the same part for a different      *)
(* marker ("e"), the digit 7, a blank and a letter.                        *)
(***************************************************************************)
PieceNames == {"S", "E", "e", "7", " ", "a"}

OtherMarker(marker) == CHOOSE m \in Markers : m # marker

PieceText(p, marker) ==
    CASE p = "S" -> StartMarker(marker)
      [] p = "E" -> EndPrefix(marker)
      [] p = "e" -> EndPrefix(OtherMarker(marker))
      [] OTHER   -> <<p>>

RECURSIVE Expand(_, _)
Expand(ps, marker) ==
    IF ps = <<>> THEN <<>> ELSE PieceText(Head(ps), marker) \o Expand(Tail(ps), marker)

PieceSeqs == UNION { [1..n -> PieceNames] : n \in 0..MaxPieces }

NoResult == [content |-> <<>>, exitCode |-> -2]

\* The markers handed to extractMarkedContent: two that differ in their random part.
ExtractMarkers == { generateMarker(h, Now) : h \in HexValues }

\* No call made, and no terminal.
ChannelIdle ==
    /\ calls = <<>>
    /\ attempts = <<>>
    /\ world = NoWorld
    /\ faults = 0

Undefined == [t |-> "undefined", v |-> 0, int |-> FALSE, s |-> <<>>]

NoRequest == [tool |-> "", tab |-> Undefined, command |-> Undefined, wait |-> Undefined,
              lines |-> Undefined, tailLines |-> Undefined, letter |-> Undefined]

\* The locals of the handlers before they are assigned: tabCount, the loop index
\* i and the list tabs of getAllTabInfo, tabContent of TailTabSingle, and the
\* message of an error on its way to the dispatcher.
NoLocals == [tabCount |-> 0, i |-> 0, tabs |-> <<>>, tabContent |-> <<>>, error |-> <<>>]

\* No string has been escaped.
NoTrim == [pc |-> "idle", content |-> <<>>, maxSize |-> 0, result |-> <<>>]

NoEscape == [pc |-> "idle", str |-> <<>>, escaped |-> <<>>, ok |-> TRUE, text |-> <<>>]

ToolIdle ==
    /\ req = NoRequest
    /\ pc = "idle"
    /\ hMarker = <<>>
    /\ loc = NoLocals
    /\ inv = <<>>
    /\ esc = NoEscape
    /\ files = {}
    /\ trim = NoTrim
    /\ resp = <<>>

ExtractIdle ==
    /\ xMarker = <<>>
    /\ xPieces = <<>>
    /\ xResult = NoResult
    /\ xpc = "idle"

InitExtract ==
    /\ xMarker \in ExtractMarkers
    /\ xPieces \in PieceSeqs
    /\ xResult = NoResult
    /\ xpc = "input"
    /\ ChannelIdle
    /\ ToolIdle

\* const { content, exitCode } = extractMarkedContent(content, marker)
Extract ==
    /\ xpc = "input"
    /\ xResult' = extractMarkedContent(Expand(xPieces, xMarker), xMarker)
    /\ xpc' = "extracted"
    /\ UNCHANGED <<xMarker, xPieces, channelVars, toolVars, pairVars, escapeVars, fileVars, trimVars>>

NextExtract == Extract

SpecExtract == InitExtract /\ [][NextExtract]_vars


(***************************************************************************)
(* runAppleScript as a state machine.  A call is the promise it returns; an *)
(* attempt is one activation of executeWithRetry: its timeout timer, its   *)
(* child process, and the 500 ms pause of its catch branch.                *)
(***************************************************************************)
NewAttempt(c, remainingRetries) ==
    [call  |-> c,
     rem   |-> remainingRetries,
     timer |-> "pending",      \* pending | fired | cleared
     exec  |-> "running",      \* running | ok | error
     text  |-> <<>>,           \* what the child process ended with
     pause |-> "none",         \* none | waiting | over
     saw   |-> NoWorld]        \* the terminal as the script found it

\* resolve(value) / reject(error): the first to settle the promise wins.
Settle(c, state, kind, value, a) ==
    IF calls[c].state = "pending"
    THEN [calls EXCEPT ![c] = [@ EXCEPT !.state = state, !.kind = kind,
                                        !.value = value, !.by = a]]
    ELSE calls

TimedOutMessage(retries) ==
    << "AppleScript execution timed out after ", "10000", "ms and " >>
       \o IntToStr(retries) \o << " retries" >>

UnavailableMessage(retries, message) ==
    << "iTerm2 unavailable after " >> \o IntToStr(retries) \o << " retries: " >> \o message

FailedMessage(message) == << "AppleScript execution failed: " >> \o message

\* runAppleScript(script, timeoutMs, retries): a new pending promise, and
\* executeWithRetry(retries).
CallRunAppleScript(script, retries) ==
    /\ calls' = Append(calls, [script |-> script, retries |-> retries, state |-> "pending",
                               kind |-> "", value |-> <<>>, by |-> 0])
    /\ attempts' = Append(attempts, NewAttempt(Len(calls) + 1, retries))

\* clearTimeout(timeoutId)
ClearTimeout(t) == IF t = "pending" THEN "cleared" ELSE t

\* A variant of the callback that also interrupts the tab its script was sent to.
TimeoutFiresInterrupting(a, limit) ==
    /\ attempts[a].timer = "pending"
    /\ \A b \in 1..(a - 1) : attempts[b].timer # "pending"
    /\ faults < limit
    /\ faults' = faults + 1
    /\ LET at == attempts[a]
           fired == [attempts EXCEPT ![a].timer = "fired"]
       IN  IF at.rem > 0
           THEN /\ attempts' = Append(fired, NewAttempt(at.call, at.rem - 1))
                /\ calls' = calls
           ELSE /\ attempts' = fired
                /\ calls' = Settle(at.call, "rejected", "timeout",
                                   TimedOutMessage(calls[at.call].retries), a)
    /\ LET n == calls[attempts[a].call].script.tab
       IN  world' = IF n \in 1..Len(world.tabs) THEN WriteHex(world, n, Interrupt) ELSE world

\* A variant of the callback that gives up without a word when no retry is left.
TimeoutFiresSilent(a, limit) ==
    /\ attempts[a].timer = "pending"
    /\ \A b \in 1..(a - 1) : attempts[b].timer # "pending"
    /\ faults < limit
    /\ faults' = faults + 1
    /\ LET at == attempts[a]
           fired == [attempts EXCEPT ![a].timer = "fired"]
       IN  IF at.rem > 0
           THEN /\ attempts' = Append(fired, NewAttempt(at.call, at.rem - 1))
                /\ calls' = calls
           ELSE /\ attempts' = fired
                /\ calls' = calls
    /\ UNCHANGED world

\* The callback of setTimeout (lines 127-135).  Timers of one duration expire in
\* the order they were set.
TimeoutFires(a, limit) ==
    /\ attempts[a].timer = "pending"
    /\ \A b \in 1..(a - 1) : attempts[b].timer # "pending"
    /\ faults < limit
    /\ faults' = faults + 1
    /\ LET at == attempts[a]
           fired == [attempts EXCEPT ![a].timer = "fired"]
       IN  IF at.rem > 0
           THEN /\ attempts' = Append(fired, NewAttempt(at.call, at.rem - 1))
                /\ calls' = calls
           ELSE /\ attempts' = fired
                /\ calls' = Settle(at.call, "rejected", "timeout",
                                   TimedOutMessage(calls[at.call].retries), a)
    /\ UNCHANGED world

\* The await of execPromise returns (lines 138-140).
ExecResolves(a) ==
    /\ attempts[a].exec = "running"
    /\ LET at == attempts[a]
           r  == RunScript(calls[at.call].script, world)
       IN  /\ r.ok
           /\ attempts' = [attempts EXCEPT ![a].exec = "ok", ![a].text = Trim(r.text),
                                           ![a].timer = ClearTimeout(@), ![a].saw = world]
           /\ calls' = Settle(at.call, "resolved", "", Trim(r.text), a)
           /\ world' = r.world
    /\ UNCHANGED faults

\* The catch branch (lines 141-157) for an error with this message.
Catch(a, message) ==
    LET at == attempts[a]
        caught == [attempts EXCEPT ![a].exec = "error", ![a].text = message,
                                   ![a].timer = ClearTimeout(@), ![a].saw = world]
    IN  IF IsTransient(message)
        THEN IF at.rem > 0
             THEN /\ attempts' = [caught EXCEPT ![a].pause = "waiting"]
                  /\ calls' = calls
             ELSE /\ attempts' = caught
                  /\ calls' = Settle(at.call, "rejected", "unavailable",
                                     UnavailableMessage(calls[at.call].retries, message), a)
        ELSE /\ attempts' = caught
             /\ calls' = Settle(at.call, "rejected", "failed", FailedMessage(message), a)

\* The await of execPromise throws: the script ended with an error.
ExecRejects(a) ==
    /\ attempts[a].exec = "running"
    /\ LET r == RunScript(calls[attempts[a].call].script, world)
       IN  /\ ~r.ok
           /\ Catch(a, CommandFailed(calls[attempts[a].call].script, r.text))
           /\ world' = r.world
    /\ UNCHANGED faults

\* The await of execPromise throws: the channel itself failed.
ExecFaults(a, fault, limit) ==
    /\ attempts[a].exec = "running"
    /\ faults < limit
    /\ faults' = faults + 1
    /\ Catch(a, FaultMessage(calls[attempts[a].call].script, fault))
    /\ UNCHANGED world

\* The 500 ms pause is over: executeWithRetry(remainingRetries - 1) (lines 150-151).
PauseOver(a) ==
    /\ attempts[a].pause = "waiting"
    /\ attempts' = Append([attempts EXCEPT ![a].pause = "over"],
                          NewAttempt(attempts[a].call, attempts[a].rem - 1))
    /\ UNCHANGED <<calls, world, faults>>

\* The user closes the last tab of the window.
CloseTab ==
    /\ Len(world.tabs) > 1
    /\ world' = [world EXCEPT !.tabs = SubSeq(@, 1, Len(@) - 1)]
    /\ UNCHANGED <<calls, attempts, faults>>

Attempt == 1..Len(attempts)

(***************************************************************************)
(* SpecInvoke: one call of runAppleScript with a script of the program,    *)
(* against a terminal.                                                     *)
(***************************************************************************)
\* What tab k shows to begin with: a line of its own and the shell's prompt.
TabText(k) == << "t" >> \o IntToStr(k) \o << "\n" >> \o Prompt

Tabs(n) == [k \in 1..n |-> [name |-> TabName(k), content |-> TabText(k), jobs |-> <<>>,
                           ctl |-> <<>>]]

InvokeWorlds ==
    { [running |-> TRUE, windows |-> 1, tabs |-> Tabs(n)] : n \in 1..MaxTabs }
    \cup { [running |-> TRUE, windows |-> 0, tabs |-> <<>>], NoWorld }

InvokeScripts == { getTabCountScript } \cup { getTabContentScript(i) : i \in 0..MaxTabs }

InitInvoke ==
    /\ ExtractIdle
    /\ ToolIdle
    /\ calls = <<>>
    /\ attempts = <<>>
    /\ world \in InvokeWorlds
    /\ faults = 0

Invoke ==
    /\ calls = <<>>
    /\ \E script \in InvokeScripts, retries \in 0..DefaultRetries :
           CallRunAppleScript(script, retries)
    /\ UNCHANGED <<world, faults>>

NextInvoke ==
    \/ (Invoke /\ UNCHANGED <<extractVars, toolVars, pairVars, escapeVars, fileVars, trimVars>>)
    \/ \E a \in Attempt : TimeoutFires(a, MaxFaults) /\ UNCHANGED <<extractVars, toolVars, pairVars, escapeVars, fileVars, trimVars>>
    \/ \E a \in Attempt : ExecResolves(a) /\ UNCHANGED <<extractVars, toolVars, pairVars, escapeVars, fileVars, trimVars>>
    \/ \E a \in Attempt : ExecRejects(a) /\ UNCHANGED <<extractVars, toolVars, pairVars, escapeVars, fileVars, trimVars>>
    \/ \E a \in Attempt, fault \in ChannelFaults :
           ExecFaults(a, fault, MaxFaults) /\ UNCHANGED <<extractVars, toolVars, pairVars, escapeVars, fileVars, trimVars>>
    \/ \E a \in Attempt : PauseOver(a) /\ UNCHANGED <<extractVars, toolVars, pairVars, escapeVars, fileVars, trimVars>>
    \/ (CloseTab /\ UNCHANGED <<extractVars, toolVars, pairVars, escapeVars, fileVars, trimVars>>)

SpecInvoke == InitInvoke /\ [][NextInvoke]_vars

(***************************************************************************)
(* Tool calls.  An argument is a JavaScript value: undefined, a number (an *)
(* integer v, or v + 0.5 when int is FALSE) or a string.                   *)
(***************************************************************************)
Num(n) == [t |-> "number", v |-> n, int |-> TRUE, s |-> <<>>]

Half(n) == [t |-> "number", v |-> n, int |-> FALSE, s |-> <<>>]

Str(chars) == [t |-> "string", v |-> 0, int |-> FALSE, s |-> chars]

\* JSON.stringify of an argument that is a number or a string.
JsonStringify(x) ==
    IF x.t = "number"
    THEN IntToStr(x.v) \o (IF x.int THEN <<>> ELSE << ".", "5" >>)
    ELSE << "\"" >> \o x.s \o << "\"" >>

Valid == [valid |-> TRUE, error |-> <<>>]

Invalid(message) == [valid |-> FALSE, error |-> message]

\* validate.tabIndex
validateTabIndex(tabIndex) ==
    IF tabIndex.t = "undefined" THEN Invalid(<< "Error: tab parameter is required." >>)
    ELSE IF tabIndex.t # "number" \/ tabIndex.v < 0 \/ ~tabIndex.int
         THEN Invalid(<< "Error: tab parameter must be a non-negative integer, got " >>
                         \o JsonStringify(tabIndex))
    ELSE Valid

\* !command: undefined, the empty string and the number 0 are falsy.
Falsy(x) ==
    \/ x.t = "undefined"
    \/ (x.t = "string" /\ x.s = <<>>)
    \/ (x.t = "number" /\ x.int /\ x.v = 0)

\* validate.command
validateCommand(command) ==
    IF Falsy(command) THEN Invalid(<< "Error: command parameter is required." >>)
    ELSE IF command.t # "string" \/ Trim(command.s) = <<>>
         THEN Invalid(<< "Error: command parameter must be a non-empty string" >>)
    ELSE Valid

\* validate.waitTime
validateWaitTime(waitTime) ==
    IF waitTime.t # "undefined" /\ (waitTime.t # "number" \/ waitTime.v < 0)
    THEN Invalid(<< "Error: wait parameter must be a non-negative number" >>)
    ELSE Valid

\* maxSize = 5000, the default of trimOutput.
DefaultMaxSize == 5000

TrimmedNote == << "\n\n[Note: Output exceeded maximum size and was trimmed]" >>

\* A variant of trimOutput that never cuts.
trimOutputNoCut(content, maxSize) == content

\* A variant that cuts a text of exactly maxSize characters too.
trimOutputOffByOne(content, maxSize) ==
    IF Len(content) < maxSize THEN content
    ELSE Substring(content, 0, maxSize) \o TrimmedNote

\* trimOutput(content, maxSize)
trimOutput(content, maxSize) ==
    IF Len(content) <= maxSize THEN content
    ELSE Substring(content, 0, maxSize) \o TrimmedNote

\* The response of runCommandBlocking for what extractMarkedContent returned.
BlockingResponse(tabIndex, extracted) ==
    LET statusMessage ==
            IF extracted.exitCode = -1
            THEN << "Command is still running in tab " >> \o IntToStr(tabIndex)
                    \o << " (no completion marker found)." >>
            ELSE << "Command completed in tab " >> \o IntToStr(tabIndex)
                    \o << " with ", "exit code " >> \o IntToStr(extracted.exitCode) \o << "." >>
    IN  statusMessage \o << " Output:\n\n" >> \o trimOutput(extracted.content, DefaultMaxSize)

\* The call the handler is waiting for: the last one made.
Awaited == calls[Len(calls)]

\* getTabContent(tabIndex): runAppleScript on the content script of the tab.
getTabContent(tabIndex) == CallRunAppleScript(getTabContentScript(tabIndex), DefaultRetries)

\* runCommandBlocking, up to its try block: an argument is rejected.
BlockingRejectsArgs ==
    /\ pc = "called" /\ req.tool = "iterm_run_command_blocking"
    /\ LET tabValidation     == validateTabIndex(req.tab)
           commandValidation == validateCommand(req.command)
           waitValidation    == validateWaitTime(req.wait)
       IN  /\ ~(tabValidation.valid /\ commandValidation.valid /\ waitValidation.valid)
           /\ resp' = IF ~tabValidation.valid THEN tabValidation.error
                      ELSE IF ~commandValidation.valid THEN commandValidation.error
                      ELSE waitValidation.error
    /\ pc' = "done"
    /\ UNCHANGED <<req, hMarker, loc, channelVars>>

\* runCommandBlocking: the arguments pass, a marker is generated and the marked
\* command is sent (lines 483-484).
BlockingSends ==
    /\ pc = "called" /\ req.tool = "iterm_run_command_blocking"
    /\ validateTabIndex(req.tab).valid
    /\ validateCommand(req.command).valid
    /\ validateWaitTime(req.wait).valid
    /\ \E hex \in HexValues, now \in {Now} :
          /\ hMarker' = generateMarker(hex, now)
          /\ CallRunAppleScript(sendMarkedCommand(req.tab.v, req.command.s, hMarker'),
                                DefaultRetries)
    /\ pc' = "sending"
    /\ UNCHANGED <<req, loc, resp, world, faults>>

\* A variant without the catch block: the wait follows a send that has failed.
BlockingSentAlwaysWaits ==
    /\ pc = "sending" /\ Awaited.state # "pending"
    /\ pc' = "waiting" /\ resp' = resp
    /\ UNCHANGED <<req, hMarker, loc, channelVars>>

\* The send has settled: on to the wait of `wait` seconds, or to the catch block.
BlockingSent ==
    /\ pc = "sending" /\ Awaited.state # "pending"
    /\ IF Awaited.state = "resolved"
       THEN pc' = "waiting" /\ resp' = resp
       ELSE /\ pc' = "done"
            /\ resp' = << "Error executing command in tab " >> \o IntToStr(req.tab.v)
                          \o << ": " >> \o Awaited.value
    /\ UNCHANGED <<req, hMarker, loc, channelVars>>

\* The wait is over: the tab's content is asked for (line 490).
BlockingReads ==
    /\ pc = "waiting"
    /\ getTabContent(req.tab.v)
    /\ pc' = "reading"
    /\ UNCHANGED <<req, hMarker, loc, resp, world, faults>>

\* The read has settled: extract and answer (lines 491-500), or the catch block.
BlockingAnswers ==
    /\ pc = "reading" /\ Awaited.state # "pending"
    /\ IF Awaited.state = "resolved"
       THEN resp' = BlockingResponse(req.tab.v, extractMarkedContent(Awaited.value, hMarker))
       ELSE resp' = << "Error executing command in tab " >> \o IntToStr(req.tab.v)
                       \o << ": " >> \o Awaited.value
    /\ pc' = "done"
    /\ UNCHANGED <<req, hMarker, loc, channelVars>>

(***************************************************************************)
(* The shell of a tab: it takes the command lines typed into the tab one   *)
(* after the other.  A marked command line first prints its START token,   *)
(* then runs the command, then prints its END token with the command's     *)
(* exit status, and the shell prints its prompt again.                     *)
(***************************************************************************)
\* The k-th double quote of a command line (1-based index into the line).
QuoteAt(line, k) ==
    LET qs == { i \in 1..Len(line) : line[i] = "\"" }
    IN  CHOOSE i \in qs : Cardinality({ j \in qs : j <= i }) = k

\* What the first echo of a marked command line prints.
FirstEcho(line) == SubSeq(line, QuoteAt(line, 1) + 1, QuoteAt(line, 2) - 1) \o << "\n" >>

\* What its last echo prints, $RESULT being status.
LastEcho(line, status) ==
    LET arg == SubSeq(line, QuoteAt(line, 3) + 1, QuoteAt(line, 4) - 1)
    IN  Substring(arg, 0, IndexOf(arg, << "$" >>)) \o IntToStr(status) \o << "\n" >>

\* More than maxSize characters of output.
BigOutput == [i \in 1..(DefaultMaxSize + 1) |-> "x"] \o << "\n" >>

\* How a command can end: what it has printed, and its exit status.
Outcomes ==
    { [out |-> << "h", "i", "\n" >>, status |-> 0],
      [out |-> << "h", "i", "\n" >>, status |-> 7],
      [out |-> BigOutput, status |-> 0] }

ShellStarts(n) ==
    /\ n \in 1..Len(world.tabs)
    /\ world.tabs[n].jobs # <<>>
    /\ ~Head(world.tabs[n].jobs).started
    /\ world' = [world EXCEPT !.tabs[n].content = @ \o FirstEcho(Head(world.tabs[n].jobs).line),
                               !.tabs[n].jobs[1].started = TRUE]
    /\ UNCHANGED <<calls, attempts, faults>>

ShellFinishes(n, out, status) ==
    /\ n \in 1..Len(world.tabs)
    /\ world.tabs[n].jobs # <<>>
    /\ Head(world.tabs[n].jobs).started
    /\ world' = [world EXCEPT !.tabs[n].content =
                                   @ \o out \o LastEcho(Head(world.tabs[n].jobs).line, status)
                                     \o Prompt,
                               !.tabs[n].jobs = Tail(@)]
    /\ UNCHANGED <<calls, attempts, faults>>

(***************************************************************************)
(* SpecTool: one tool call against a terminal.                             *)
(***************************************************************************)
EchoHi == << "e", "c", "h", "o", " ", "h", "i" >>

TabArgs == { Undefined, Num(-1), Num(0), Num(1), Num(MaxTabs), Half(0), Str(<< "0" >>) }

CommandArgs == { Undefined, Str(<< " " >>), Str(EchoHi) }

WaitArgs == { Num(1), Num(-1) }

ToolWorlds == { [running |-> TRUE, windows |-> 1, tabs |-> Tabs(n)] : n \in 1..MaxTabs }

InitTool ==
    /\ ExtractIdle
    /\ calls = <<>>
    /\ attempts = <<>>
    /\ world \in ToolWorlds
    /\ faults = 0
    /\ req \in [tool : {"iterm_run_command_blocking"}, tab : TabArgs, command : CommandArgs,
                wait : WaitArgs, lines : {Undefined}, tailLines : {Undefined},
                letter : {Undefined}]
    /\ pc = "called"
    /\ hMarker = <<>>
    /\ loc = NoLocals
    /\ inv = <<>>
    /\ esc = NoEscape
    /\ files = {}
    /\ trim = NoTrim
    /\ resp = <<>>

\* The terminal and the channel move for as long as the call has not answered.
Running == pc # "done"

NextTool ==
    \/ (BlockingRejectsArgs /\ UNCHANGED <<extractVars, pairVars, escapeVars, fileVars, trimVars>>)
    \/ (BlockingSends /\ UNCHANGED <<extractVars, pairVars, escapeVars, fileVars, trimVars>>)
    \/ (BlockingSent /\ UNCHANGED <<extractVars, pairVars, escapeVars, fileVars, trimVars>>)
    \/ (BlockingReads /\ UNCHANGED <<extractVars, pairVars, escapeVars, fileVars, trimVars>>)
    \/ (BlockingAnswers /\ UNCHANGED <<extractVars, pairVars, escapeVars, fileVars, trimVars>>)
    \/ \E a \in Attempt :
           Running /\ TimeoutFires(a, MaxToolFaults) /\ UNCHANGED <<extractVars, toolVars, pairVars, escapeVars, fileVars, trimVars>>
    \/ \E a \in Attempt : Running /\ ExecResolves(a) /\ UNCHANGED <<extractVars, toolVars, pairVars, escapeVars, fileVars, trimVars>>
    \/ \E a \in Attempt : Running /\ ExecRejects(a) /\ UNCHANGED <<extractVars, toolVars, pairVars, escapeVars, fileVars, trimVars>>
    \/ \E a \in Attempt, fault \in ChannelFaults :
           Running /\ ExecFaults(a, fault, MaxToolFaults) /\ UNCHANGED <<extractVars, toolVars, pairVars, escapeVars, fileVars, trimVars>>
    \/ \E a \in Attempt : Running /\ PauseOver(a) /\ UNCHANGED <<extractVars, toolVars, pairVars, escapeVars, fileVars, trimVars>>
    \/ \E n \in 1..MaxTabs : Running /\ ShellStarts(n) /\ UNCHANGED <<extractVars, toolVars, pairVars, escapeVars, fileVars, trimVars>>
    \/ \E n \in 1..MaxTabs, o \in Outcomes :
           Running /\ ShellFinishes(n, o.out, o.status) /\ UNCHANGED <<extractVars, toolVars, pairVars, escapeVars, fileVars, trimVars>>
    \/ (Running /\ CloseTab /\ UNCHANGED <<extractVars, toolVars, pairVars, escapeVars, fileVars, trimVars>>)

SpecTool == InitTool /\ [][NextTool]_vars

(***************************************************************************)
(* SpecWait: one call of run_command_blocking against a window of one tab  *)
(* and a shell whose command prints before it ends.                        *)
(***************************************************************************)
\* What a command can have printed while it runs.
PartialOutputs == { << "h", "i", "\n" >>, BigOutput }

\* The command the tab is running prints, once, before it ends.
ShellPrints(n, out) ==
    /\ n \in 1..Len(world.tabs)
    /\ world.tabs[n].jobs # <<>>
    /\ Head(world.tabs[n].jobs).started
    /\ LET content == world.tabs[n].content
           echoed  == FirstEcho(Head(world.tabs[n].jobs).line)
       IN  SubSeq(content, Len(content) - Len(echoed) + 1, Len(content)) = echoed
    /\ world' = [world EXCEPT !.tabs[n].content = @ \o out]
    /\ UNCHANGED <<calls, attempts, faults>>

\* One tab, and a command that is accepted; the tab asked for is there or not.
InitWait ==
    /\ ExtractIdle
    /\ calls = <<>>
    /\ attempts = <<>>
    /\ world = [running |-> TRUE, windows |-> 1, tabs |-> Tabs(1)]
    /\ faults = 0
    /\ req \in [tool : {"iterm_run_command_blocking"}, tab : { Undefined, Num(0), Num(1) },
                command : { Str(EchoHi) }, wait : { Num(1) }, lines : {Undefined},
                tailLines : {Undefined}, letter : {Undefined}]
    /\ pc = "called"
    /\ hMarker = <<>>
    /\ loc = NoLocals
    /\ inv = <<>>
    /\ esc = NoEscape
    /\ files = {}
    /\ trim = NoTrim
    /\ resp = <<>>

NextWait ==
    \/ (BlockingRejectsArgs /\ UNCHANGED <<extractVars, pairVars, escapeVars, fileVars, trimVars>>)
    \/ (BlockingSends /\ UNCHANGED <<extractVars, pairVars, escapeVars, fileVars, trimVars>>)
    \/ (BlockingSent /\ UNCHANGED <<extractVars, pairVars, escapeVars, fileVars, trimVars>>)
    \/ (BlockingReads /\ UNCHANGED <<extractVars, pairVars, escapeVars, fileVars, trimVars>>)
    \/ (BlockingAnswers /\ UNCHANGED <<extractVars, pairVars, escapeVars, fileVars, trimVars>>)
    \/ \E a \in Attempt :
           Running /\ TimeoutFires(a, MaxToolFaults) /\ UNCHANGED <<extractVars, toolVars, pairVars, escapeVars, fileVars, trimVars>>
    \/ \E a \in Attempt : Running /\ ExecResolves(a) /\ UNCHANGED <<extractVars, toolVars, pairVars, escapeVars, fileVars, trimVars>>
    \/ \E a \in Attempt : Running /\ ExecRejects(a) /\ UNCHANGED <<extractVars, toolVars, pairVars, escapeVars, fileVars, trimVars>>
    \/ \E a \in Attempt, fault \in ChannelFaults :
           Running /\ ExecFaults(a, fault, MaxToolFaults) /\ UNCHANGED <<extractVars, toolVars, pairVars, escapeVars, fileVars, trimVars>>
    \/ \E a \in Attempt : Running /\ PauseOver(a) /\ UNCHANGED <<extractVars, toolVars, pairVars, escapeVars, fileVars, trimVars>>
    \/ \E n \in 1..MaxTabs : Running /\ ShellStarts(n) /\ UNCHANGED <<extractVars, toolVars, pairVars, escapeVars, fileVars, trimVars>>
    \/ \E n \in 1..MaxTabs, out \in PartialOutputs :
           Running /\ ShellPrints(n, out) /\ UNCHANGED <<extractVars, toolVars, pairVars, escapeVars, fileVars, trimVars>>
    \/ \E n \in 1..MaxTabs :
           Running /\ ShellFinishes(n, <<>>, 0) /\ UNCHANGED <<extractVars, toolVars, pairVars, escapeVars, fileVars, trimVars>>

SpecWait == InitWait /\ [][NextWait]_vars

(***************************************************************************)
(* The other tools, and the dispatcher of tool calls.                      *)
(***************************************************************************)
\* validate.lines(lines, name)
validateLines(lines, name) ==
    IF lines.t # "undefined" /\ (lines.t # "number" \/ lines.v < 0 \/ ~lines.int)
    THEN Invalid(<< "Error: ", name, " parameter must be a non-negative integer" >>)
    ELSE Valid

LowerCase == << "a", "b", "c", "d", "e", "f", "g", "h", "i", "j", "k", "l", "m",
                "n", "o", "p", "q", "r", "s", "t", "u", "v", "w", "x", "y", "z" >>

UpperCase == << "A", "B", "C", "D", "E", "F", "G", "H", "I", "J", "K", "L", "M",
                "N", "O", "P", "Q", "R", "S", "T", "U", "V", "W", "X", "Y", "Z" >>

\* The characters outside ASCII a letter argument is drawn from, each written as
\* one element: dotless i, long s and sharp s.
DotlessI == "U+0131"

LongS == "U+017F"

SharpS == "U+00DF"

\* String.prototype.toUpperCase, character by character: a-z go to A-Z, dotless i
\* to I, long s to S, sharp s to SS; the other characters of the model stay.
RECURSIVE toUpperCase(_)
toUpperCase(str) ==
    IF str = <<>> THEN <<>>
    ELSE LET c == Head(str)
             u == IF \E k \in 1..26 : LowerCase[k] = c
                  THEN << UpperCase[CHOOSE k \in 1..26 : LowerCase[k] = c] >>
                  ELSE IF c = DotlessI THEN << "I" >>
                  ELSE IF c = LongS THEN << "S" >>
                  ELSE IF c = SharpS THEN << "S", "S" >>
                  ELSE << c >>
         IN  u \o toUpperCase(Tail(str))

\* /^[A-Z]$/.test(str)
IsSingleAZ(str) == Len(str) = 1 /\ \E k \in 1..26 : UpperCase[k] = str[1]

\* validate.letter.  A letter that is neither falsy nor a string has no
\* toUpperCase: the call throws a TypeError (thrown), out of the handler.
validateLetter(letter) ==
    IF Falsy(letter)
    THEN [valid |-> FALSE, thrown |-> FALSE, upperLetter |-> <<>>,
          error |-> << "Error: letter parameter is required." >>]
    ELSE IF letter.t # "string"
    THEN [valid |-> FALSE, thrown |-> TRUE, upperLetter |-> <<>>,
          error |-> << "letter.toUpperCase is not a function" >>]
    ELSE IF ~IsSingleAZ(toUpperCase(letter.s))
    THEN [valid |-> FALSE, thrown |-> FALSE, upperLetter |-> <<>>,
          error |-> << "Error: Letter must be a single character from A-Z." >>]
    ELSE [valid |-> TRUE, thrown |-> FALSE, upperLetter |-> toUpperCase(letter.s), error |-> <<>>]

\* upperLetter.charCodeAt(0), for a letter from A to Z.
CharCodeAt0(upperLetter) == 64 + (CHOOSE k \in 1..26 : UpperCase[k] = upperLetter[1])

\* text.split("\n").slice(-n).join("\n"): the last n lines of a text; slice(-0)
\* is slice(0), the whole of it.
LastLines(text, n) ==
    LET breaks == SelectSeq(Positions(text), LAMBDA i : text[i] = "\n")
        count  == Len(breaks) + 1
    IN  IF n = 0 \/ n >= count THEN text
        ELSE SubSeq(text, breaks[count - n] + 1, Len(text))

\* parseSingleTabInfo(tabData, tabIndex)
parseSingleTabInfo(tabData, tabIndex) ==
    LET nameAt       == IndexOf(tabData, << "TAB_NAME:" >>)
        afterName    == SubstringFrom(tabData, nameAt + 1)
        nameEnd      == IndexOf(afterName, << "\n" >>)
        runningAt    == { i \in 1..(Len(tabData) - 1) :
                              /\ tabData[i] = "TAB_IS_RUNNING:"
                              /\ tabData[i + 1] \in {"true", "false"} }
        contentStart == IndexOf(tabData, << "TAB_CONTENT:" >>)
    IN  IF contentStart # -1
        THEN [index     |-> tabIndex,
              name      |-> IF nameAt = -1 THEN << "Unknown" >>
                            ELSE IF nameEnd = -1 THEN afterName
                            ELSE Substring(afterName, 0, nameEnd),
              isRunning |-> runningAt # {} /\ tabData[SetMin(runningAt) + 1] = "true",
              content   |-> Trim(SubstringFrom(tabData, contentStart + 1))]
        ELSE [index |-> tabIndex, name |-> << "Unknown" >>, isRunning |-> FALSE,
              content |-> << "Error parsing tab data" >>]

\* What getAllTabInfo pushes for a tab whose query failed (line 382).
FailedTabInfo(i, message) ==
    [index |-> i, name |-> << "Tab " >> \o IntToStr(i), isRunning |-> FALSE,
     content |-> << "Error accessing tab: " >> \o message]

\* args?.lines || 20
LinesOrDefault(lines) == IF Falsy(lines) THEN Num(20) ELSE lines

Separator == << "\n", "\n" >> \o [i \in 1..50 |-> "-"] \o << "\n", "\n" >>

\* The response of TailTabAll (lines 412-420).
RECURSIVE TailAllText(_, _)
TailAllText(tabs, lines) ==
    IF tabs = <<>> THEN <<>>
    ELSE LET tab == Head(tabs)
         IN  << "========== TAB " >> \o IntToStr(tab.index) \o << ": " >> \o tab.name
                \o << " ==========", "\n", "\n" >>
                \o trimOutput(LastLines(tab.content, lines), DefaultMaxSize)
                \o (IF Len(tabs) = 1 THEN <<>> ELSE Separator \o TailAllText(Tail(tabs), lines))

\* maxSize of the whole answer of TailTabAll.
TailAllMaxSize == 10000

\* JSON.stringify of a string.
JsonString(str) ==
    << "\"" >> \o ReplaceAll(ReplaceAll(str, "\\", << "\\", "\\" >>), "\"", << "\\", "\"" >>)
       \o << "\"" >>

\* JSON.stringify(tabsInfo, null, 2) of the list GetAllTabInfo builds (lines 600-607).
RECURSIVE TabsInfoItems(_)
TabsInfoItems(tabs) ==
    IF tabs = <<>> THEN <<>>
    ELSE LET tab == Head(tabs)
         IN  << "\n", "  {", "\n", "    \"index\": " >> \o IntToStr(tab.index)
                \o << ",", "\n", "    \"name\": " >> \o JsonString(tab.name)
                \o << ",", "\n", "    \"isRunning\": ", IF tab.isRunning THEN "true" ELSE "false" >>
                \o << ",", "\n", "    \"commandRunning\": " >>
                \o JsonString(IF tab.isRunning THEN << "unknown (detected via content)" >>
                              ELSE << "none" >>)
                \o << "\n", "  }" >>
                \o (IF Len(tabs) = 1 THEN << "\n" >> ELSE << "," >> \o TabsInfoItems(Tail(tabs)))

TabsInfoText(tabs) ==
    << "Tab Information:", "\n", "\n" >>
       \o (IF tabs = <<>> THEN << "[]" >> ELSE << "[" >> \o TabsInfoItems(tabs) \o << "]" >>)

\* The names of the tools (lines 617-697).
ToolNames ==
    { "iterm_new_tab", "iterm_tail_tab_all", "iterm_tail_tab_single",
      "iterm_run_command_blocking", "iterm_run_command_async", "iterm_control_code",
      "iterm_get_all_tabs_info" }

\* getTabCount(): runAppleScript on the count script; its value is parsed on return.
getTabCount == CallRunAppleScript(getTabCountScript, DefaultRetries)

\* A response is returned.
Return(text) ==
    /\ pc' = "done"
    /\ resp' = text

\* The handler of CallToolRequestSchema (lines 719-732), up to the call of the
\* tool's handler: the tool is looked up by name.
Dispatch ==
    /\ pc = "requested"
    /\ IF req.tool \notin ToolNames
       THEN Return(<< "Unknown tool \"", req.tool, "\"" >>)
       ELSE pc' = "called" /\ resp' = resp
    /\ UNCHANGED <<req, hMarker, loc, channelVars>>

\* A dispatcher without the catch block: the error leaves it.
DispatcherRethrows(error) ==
    /\ pc' = "failed"
    /\ resp' = resp

\* The catch block of the dispatcher (lines 728-731), for an Error object:
\* createResponse.error(error) is `Error: ${error.message}`.
DispatcherCatch(error) == Return(<< "Error: " >> \o error)

\* An error thrown by the tool's handler arrives in the dispatcher.
DispatchCaught ==
    /\ pc = "threw"
    /\ DispatcherCatch(loc.error)
    /\ UNCHANGED <<req, hMarker, loc, channelVars>>

\* createNewTab: the script is run (line 395).
NewTabCreates ==
    /\ pc = "called" /\ req.tool = "iterm_new_tab"
    /\ CallRunAppleScript(createNewTabScript, DefaultRetries)
    /\ pc' = "creating"
    /\ UNCHANGED <<req, hMarker, loc, resp, world, faults>>

\* createNewTab: the script has settled (lines 396-398).
NewTabAnswers ==
    /\ pc = "creating" /\ Awaited.state # "pending"
    /\ IF Awaited.state = "resolved"
       THEN Return(<< "New tab created successfully." >>)
       ELSE Return(<< "Error creating new tab: " >> \o Awaited.value)
    /\ UNCHANGED <<req, hMarker, loc, channelVars>>

\* TailTabAll: the lines argument is rejected (lines 404-408).
TailAllRejectsArgs ==
    /\ pc = "called" /\ req.tool = "iterm_tail_tab_all"
    /\ ~validateLines(LinesOrDefault(req.lines), "lines").valid
    /\ Return(validateLines(LinesOrDefault(req.lines), "lines").error)
    /\ UNCHANGED <<req, hMarker, loc, channelVars>>

\* TailTabAll and GetAllTabInfo call getAllTabInfo, which asks for the number of
\* tabs first (line 375).
AllTabInfoStarts ==
    /\ pc = "called"
    /\ \/ req.tool = "iterm_get_all_tabs_info"
       \/ req.tool = "iterm_tail_tab_all" /\ validateLines(LinesOrDefault(req.lines), "lines").valid
    /\ getTabCount
    /\ pc' = "counting"
    /\ UNCHANGED <<req, hMarker, loc, resp, world, faults>>

\* The response of the caller of getAllTabInfo for the list it returned.
AllTabInfoResponse(tabs) ==
    IF req.tool = "iterm_tail_tab_all"
    THEN trimOutput(TailAllText(tabs, LinesOrDefault(req.lines).v), TailAllMaxSize)
    ELSE TabsInfoText(tabs)

\* The response of the caller's catch block (lines 422, 609).
AllTabInfoError(message) ==
    IF req.tool = "iterm_tail_tab_all"
    THEN << "Error listing tabs: " >> \o message
    ELSE << "Error getting tabs info: " >> \o message

\* getAllTabInfo: the count has settled.  The loop starts with tab 0, or ends
\* at once; a failed count is an error in the caller's try block.
AllTabInfoCounted ==
    /\ pc = "counting" /\ Awaited.state # "pending"
    /\ IF Awaited.state = "rejected"
       THEN /\ Return(AllTabInfoError(Awaited.value))
            /\ UNCHANGED <<loc, calls, attempts>>
       ELSE LET tabCount == ParseInt(Awaited.value)
            IN  /\ loc' = [loc EXCEPT !.tabCount = tabCount, !.i = 0, !.tabs = <<>>]
                /\ IF 0 < tabCount
                   THEN /\ CallRunAppleScript(getTabInfoScript(0), DefaultRetries)
                        /\ pc' = "info"
                        /\ resp' = resp
                   ELSE /\ Return(AllTabInfoResponse(<<>>))
                        /\ UNCHANGED <<calls, attempts>>
    /\ UNCHANGED <<req, hMarker, world, faults>>

\* A variant of the loop without the try block: the failure of a tab's query ends
\* the listing, as an error of the caller.
AllTabInfoAbortsOnFailure ==
    /\ pc = "info" /\ Awaited.state # "pending"
    /\ IF Awaited.state = "rejected"
       THEN /\ Return(AllTabInfoError(Awaited.value))
            /\ UNCHANGED <<loc, calls, attempts>>
       ELSE LET tabs == Append(loc.tabs, parseSingleTabInfo(Awaited.value, loc.i))
            IN  /\ loc' = [loc EXCEPT !.tabs = tabs, !.i = loc.i + 1]
                /\ IF loc.i + 1 < loc.tabCount
                   THEN /\ CallRunAppleScript(getTabInfoScript(loc.i + 1), DefaultRetries)
                        /\ UNCHANGED <<pc, resp>>
                   ELSE /\ Return(AllTabInfoResponse(tabs))
                        /\ UNCHANGED <<calls, attempts>>
    /\ UNCHANGED <<req, hMarker, world, faults>>

\* getAllTabInfo: the query of tab i has settled (lines 378-383).  Its snapshot
\* is pushed, and the loop goes on to tab i + 1 or returns the list.
AllTabInfoPushes ==
    /\ pc = "info" /\ Awaited.state # "pending"
    /\ LET tabs == Append(loc.tabs,
                          IF Awaited.state = "resolved"
                          THEN parseSingleTabInfo(Awaited.value, loc.i)
                          ELSE FailedTabInfo(loc.i, Awaited.value))
       IN  /\ loc' = [loc EXCEPT !.tabs = tabs, !.i = loc.i + 1]
           /\ IF loc.i + 1 < loc.tabCount
              THEN /\ CallRunAppleScript(getTabInfoScript(loc.i + 1), DefaultRetries)
                   /\ UNCHANGED <<pc, resp>>
              ELSE /\ Return(AllTabInfoResponse(tabs))
                   /\ UNCHANGED <<calls, attempts>>
    /\ UNCHANGED <<req, hMarker, world, faults>>

\* lines = 50 unless the argument is given (line 429).
SingleLines == IF req.lines.t = "undefined" THEN Num(50) ELSE req.lines

\* TailTabSingle: an argument is rejected (lines 432-440).
TailSingleRejectsArgs ==
    /\ pc = "called" /\ req.tool = "iterm_tail_tab_single"
    /\ LET tabValidation   == validateTabIndex(req.tab)
           linesValidation == validateLines(SingleLines, "lines")
       IN  /\ ~(tabValidation.valid /\ linesValidation.valid)
           /\ Return(IF ~tabValidation.valid THEN tabValidation.error
                     ELSE linesValidation.error)
    /\ UNCHANGED <<req, hMarker, loc, channelVars>>

\* A variant that keeps the number of tabs: when an earlier count query has
\* returned, its result is used again in place of a new query.
TailSingleCountsCached ==
    /\ pc = "called" /\ req.tool = "iterm_tail_tab_single"
    /\ validateTabIndex(req.tab).valid
    /\ validateLines(SingleLines, "lines").valid
    /\ LET known == { c \in 1..Len(calls) :
                         calls[c].script = getTabCountScript /\ calls[c].state = "resolved" }
       IN  IF known = {} THEN getTabCount
           ELSE /\ calls' = Append(calls, calls[SetMin(known)])
                /\ attempts' = attempts
    /\ pc' = "singleCounting"
    /\ UNCHANGED <<req, hMarker, loc, resp, world, faults>>

\* TailTabSingle: the arguments pass and the number of tabs is asked for (line 443).
TailSingleCounts ==
    /\ pc = "called" /\ req.tool = "iterm_tail_tab_single"
    /\ validateTabIndex(req.tab).valid
    /\ validateLines(SingleLines, "lines").valid
    /\ getTabCount
    /\ pc' = "singleCounting"
    /\ UNCHANGED <<req, hMarker, loc, resp, world, faults>>

\* The response of TailTabSingle for a tab the window does not have (line 445).
OutOfBounds(tabIndex, tabCount) ==
    << "Error: Tab index " >> \o IntToStr(tabIndex) \o << " is ", "out of bounds",
       ". There are only " >> \o IntToStr(tabCount) \o << " tabs", "." >>

\* The response of the catch block of TailTabSingle (line 458).
TailSingleError(message) ==
    << "Error accessing tab " >> \o IntToStr(req.tab.v) \o << ": " >> \o message

\* A variant of the bounds test of TailTabSingle that lets the tab after the last through.
BeyondTabsOffByOne(tabIndex, tabCount) == tabIndex < 0 \/ tabIndex > tabCount

\* tabIndex < 0 || tabIndex >= tabCount (line 444)
BeyondTabs(tabIndex, tabCount) == tabIndex < 0 \/ tabIndex >= tabCount

\* TailTabSingle: the count has settled (lines 443-448): the bounds error, or the
\* content of the tab is asked for.
TailSingleCounted ==
    /\ pc = "singleCounting" /\ Awaited.state # "pending"
    /\ IF Awaited.state = "rejected"
       THEN /\ Return(TailSingleError(Awaited.value))
            /\ UNCHANGED <<loc, calls, attempts>>
       ELSE LET tabCount == ParseInt(Awaited.value)
            IN  /\ loc' = [loc EXCEPT !.tabCount = tabCount]
                /\ IF BeyondTabs(req.tab.v, tabCount)
                   THEN /\ Return(OutOfBounds(req.tab.v, tabCount))
                        /\ UNCHANGED <<calls, attempts>>
                   ELSE /\ getTabContent(req.tab.v)
                        /\ pc' = "singleContent"
                        /\ resp' = resp
    /\ UNCHANGED <<req, hMarker, world, faults>>

\* TailTabSingle: the content has settled (lines 448-449): the tab's info is
\* asked for, for its name.
TailSingleContentRead ==
    /\ pc = "singleContent" /\ Awaited.state # "pending"
    /\ IF Awaited.state = "rejected"
       THEN /\ Return(TailSingleError(Awaited.value))
            /\ UNCHANGED <<loc, calls, attempts>>
       ELSE /\ loc' = [loc EXCEPT !.tabContent = Awaited.value]
            /\ CallRunAppleScript(getTabInfoScript(req.tab.v), DefaultRetries)
            /\ pc' = "singleName"
            /\ resp' = resp
    /\ UNCHANGED <<req, hMarker, world, faults>>

\* TailTabSingle: the info has settled (lines 450-456).
TailSingleAnswers ==
    /\ pc = "singleName" /\ Awaited.state # "pending"
    /\ IF Awaited.state = "rejected"
       THEN Return(TailSingleError(Awaited.value))
       ELSE Return(<< "Tab " >> \o IntToStr(req.tab.v) \o << " (" >>
                      \o parseSingleTabInfo(Awaited.value, req.tab.v).name
                      \o << "):", "\n", "\n" >>
                      \o trimOutput(LastLines(loc.tabContent, SingleLines.v), DefaultMaxSize))
    /\ UNCHANGED <<req, hMarker, loc, channelVars>>

\* wait: waitTime = 0 and tailLines = 0 unless the arguments are given (lines 508-513).
AsyncWait == IF req.wait.t = "undefined" THEN Num(0) ELSE req.wait

AsyncTailLines == IF req.tailLines.t = "undefined" THEN Num(0) ELSE req.tailLines

\* x > 0, for a number.
Positive(x) == x.v > 0 \/ (~x.int /\ x.v >= 0)

\* runCommandAsync: an argument is rejected (lines 516-534).
AsyncRejectsArgs ==
    /\ pc = "called" /\ req.tool = "iterm_run_command_async"
    /\ LET tabValidation     == validateTabIndex(req.tab)
           commandValidation == validateCommand(req.command)
           waitValidation    == validateWaitTime(AsyncWait)
           linesValidation   == validateLines(AsyncTailLines, "tailLines")
       IN  /\ ~(tabValidation.valid /\ commandValidation.valid /\ waitValidation.valid
                  /\ linesValidation.valid)
           /\ Return(IF ~tabValidation.valid THEN tabValidation.error
                     ELSE IF ~commandValidation.valid THEN commandValidation.error
                     ELSE IF ~waitValidation.valid THEN waitValidation.error
                     ELSE linesValidation.error)
    /\ UNCHANGED <<req, hMarker, loc, channelVars>>

\* runCommandAsync: the arguments pass, a marker is generated and the marked
\* command is sent (lines 537-538).
AsyncSends ==
    /\ pc = "called" /\ req.tool = "iterm_run_command_async"
    /\ validateTabIndex(req.tab).valid
    /\ validateCommand(req.command).valid
    /\ validateWaitTime(AsyncWait).valid
    /\ validateLines(AsyncTailLines, "tailLines").valid
    /\ \E hex \in HexValues, now \in {Now} :
          /\ hMarker' = generateMarker(hex, now)
          /\ CallRunAppleScript(sendMarkedCommand(req.tab.v, req.command.s, hMarker'),
                                DefaultRetries)
    /\ pc' = "asyncSending"
    /\ UNCHANGED <<req, loc, resp, world, faults>>

\* outputMessage before any output is appended (lines 540, 546).
AsyncSentMessage ==
    << "Command \"" >> \o req.command.s \o << "\" sent to tab " >> \o IntToStr(req.tab.v)
       \o (IF Positive(AsyncWait)
           THEN << " and waited " >> \o JsonStringify(AsyncWait) \o << " seconds." >>
           ELSE << "." >>)

\* The response of the catch block of runCommandAsync (line 566).
AsyncError(message) ==
    << "Error running command in tab " >> \o IntToStr(req.tab.v) \o << ": " >> \o message

\* A variant that reads the tab after every send, whatever tailLines is.
AsyncSentAlwaysReads ==
    /\ pc = "asyncSending" /\ Awaited.state # "pending"
    /\ IF Awaited.state = "rejected"
       THEN Return(AsyncError(Awaited.value)) /\ UNCHANGED <<calls, attempts>>
       ELSE IF Positive(AsyncWait)
       THEN pc' = "asyncWaiting" /\ resp' = resp /\ UNCHANGED <<calls, attempts>>
       ELSE getTabContent(req.tab.v) /\ pc' = "asyncReading" /\ resp' = resp
    /\ UNCHANGED <<req, hMarker, loc, world, faults>>

\* runCommandAsync: the send has settled (lines 538-545).
AsyncSent ==
    /\ pc = "asyncSending" /\ Awaited.state # "pending"
    /\ IF Awaited.state = "rejected"
       THEN Return(AsyncError(Awaited.value)) /\ UNCHANGED <<calls, attempts>>
       ELSE IF Positive(AsyncWait)
       THEN pc' = "asyncWaiting" /\ resp' = resp /\ UNCHANGED <<calls, attempts>>
       ELSE IF Positive(AsyncTailLines)
       THEN getTabContent(req.tab.v) /\ pc' = "asyncReading" /\ resp' = resp
       ELSE Return(AsyncSentMessage) /\ UNCHANGED <<calls, attempts>>
    /\ UNCHANGED <<req, hMarker, loc, world, faults>>

\* runCommandAsync: the wait is over (lines 545-551).
AsyncWaited ==
    /\ pc = "asyncWaiting"
    /\ IF Positive(AsyncTailLines)
       THEN getTabContent(req.tab.v) /\ pc' = "asyncReading" /\ resp' = resp
       ELSE Return(AsyncSentMessage) /\ UNCHANGED <<calls, attempts>>
    /\ UNCHANGED <<req, hMarker, loc, world, faults>>

\* outputMessage with the output appended (lines 552-561).
AsyncOutputMessage(extracted) ==
    AsyncSentMessage
       \o (IF extracted.exitCode # -1
           THEN << " Completed with ", "exit code " >> \o IntToStr(extracted.exitCode) \o << "." >>
           ELSE <<>>)
       \o << "\n", "\n", "Output (last " >> \o IntToStr(AsyncTailLines.v) \o << " lines):", "\n", "\n" >>
       \o trimOutput(LastLines(extracted.content, AsyncTailLines.v), DefaultMaxSize)

\* runCommandAsync: the read has settled (lines 551-566).
AsyncAnswers ==
    /\ pc = "asyncReading" /\ Awaited.state # "pending"
    /\ IF Awaited.state = "rejected"
       THEN Return(AsyncError(Awaited.value))
       ELSE Return(AsyncOutputMessage(extractMarkedContent(Awaited.value, hMarker)))
    /\ UNCHANGED <<req, hMarker, loc, channelVars>>

\* sendControlCode: an argument is rejected (lines 575-583), or the letter has no
\* toUpperCase and validate.letter throws.
ControlRejectsArgs ==
    /\ pc = "called" /\ req.tool = "iterm_control_code"
    /\ LET tabValidation    == validateTabIndex(req.tab)
           letterValidation == validateLetter(req.letter)
       IN  /\ ~(tabValidation.valid /\ letterValidation.valid)
           /\ IF ~tabValidation.valid
              THEN Return(tabValidation.error) /\ loc' = loc
              ELSE IF letterValidation.thrown
              THEN pc' = "threw" /\ resp' = resp
                     /\ loc' = [loc EXCEPT !.error = letterValidation.error]
              ELSE Return(letterValidation.error) /\ loc' = loc
    /\ UNCHANGED <<req, hMarker, channelVars>>

\* sendControlCode: the arguments pass and the control character is sent
\* (lines 586-588).
ControlSends ==
    /\ pc = "called" /\ req.tool = "iterm_control_code"
    /\ validateTabIndex(req.tab).valid
    /\ validateLetter(req.letter).valid
    /\ LET upperLetter == validateLetter(req.letter).upperLetter
           controlCode == CharCodeAt0(upperLetter) - 64
       IN  CallRunAppleScript(sendControlChar(req.tab.v, controlCode), DefaultRetries)
    /\ pc' = "controlling"
    /\ UNCHANGED <<req, hMarker, loc, resp, world, faults>>

\* sendControlCode: the send has settled (lines 589-591).
ControlAnswers ==
    /\ pc = "controlling" /\ Awaited.state # "pending"
    /\ IF Awaited.state = "resolved"
       THEN Return(<< "Control-" >> \o validateLetter(req.letter).upperLetter
                      \o << " sent to tab " >> \o IntToStr(req.tab.v) \o << "." >>)
       ELSE Return(<< "Error sending Control-" >> \o toUpperCase(req.letter.s)
                      \o << " to tab " >> \o IntToStr(req.tab.v) \o << ": " >> \o Awaited.value)
    /\ UNCHANGED <<req, hMarker, loc, channelVars>>

(***************************************************************************)
(* SpecCall: one request to the dispatcher, for any of the tools, against  *)
(* a terminal.                                                             *)
(***************************************************************************)
Request(tool, tab, command, wait, lines, tailLines, letter) ==
    [tool |-> tool, tab |-> tab, command |-> command, wait |-> wait, lines |-> lines,
     tailLines |-> tailLines, letter |-> letter]

LineArgs == { Undefined, Num(1), Num(-1), Half(0), Str(<<>>) }

LetterArgs ==
    { Undefined, Str(<< "c" >>), Str(<< "C" >>), Str(<< "1" >>), Str(<< "c", "c" >>),
      Str(<< DotlessI >>), Str(<< SharpS >>), Num(3) }

CallRequests ==
    { Request(tool, Undefined, Undefined, Undefined, Undefined, Undefined, Undefined) :
          tool \in { "iterm_close_tab", "iterm_new_tab", "iterm_get_all_tabs_info" } }
    \cup { Request("iterm_tail_tab_all", Undefined, Undefined, Undefined, lines, Undefined,
                   Undefined) : lines \in LineArgs }
    \cup { Request("iterm_tail_tab_single", tab, Undefined, Undefined, lines, Undefined,
                   Undefined) : tab \in TabArgs, lines \in { Undefined, Num(1), Half(0) } }
    \cup { Request("iterm_run_command_async", tab, command, wait, Undefined, tailLines,
                   Undefined) :
              tab \in { Undefined, Num(0) }, command \in { Undefined, Str(EchoHi) },
              wait \in { Undefined, Num(1), Num(-1) },
              tailLines \in { Undefined, Num(1), Half(0) } }
    \cup { Request("iterm_run_command_blocking", tab, command, wait, Undefined, Undefined,
                   Undefined) :
              tab \in { Undefined, Num(0) }, command \in { Undefined, Str(EchoHi) },
              wait \in WaitArgs }
    \cup { Request("iterm_control_code", tab, Undefined, Undefined, Undefined, Undefined,
                   letter) :
              tab \in { Undefined, Num(0), Num(MaxTabs) }, letter \in LetterArgs }

\* The marker of a command sent before the request.
EarlierMarker == << "e", "a", "r", "l", "y" >>

\* A terminal whose first tab is running a command sent earlier.
BusyWorld ==
    LET line == MarkedCommand(EchoHi, EarlierMarker)
    IN  [running |-> TRUE, windows |-> 1,
         tabs |-> [Tabs(1) EXCEPT ![1].content = @ \o line \o << "\n" >> \o FirstEcho(line),
                                  ![1].jobs = << [line |-> line, started |-> TRUE] >>]]

CallWorlds ==
    ToolWorlds \cup { BusyWorld, NoWorld, [running |-> TRUE, windows |-> 0, tabs |-> <<>>] }

InitCall ==
    /\ ExtractIdle
    /\ calls = <<>>
    /\ attempts = <<>>
    /\ world \in CallWorlds
    /\ faults = 0
    /\ req \in CallRequests
    /\ pc = "requested"
    /\ hMarker = <<>>
    /\ loc = NoLocals
    /\ inv = <<>>
    /\ esc = NoEscape
    /\ files = {}
    /\ trim = NoTrim
    /\ resp = <<>>

\* The request is being served: it has neither been answered nor has it failed.
Serving == pc \notin { "done", "failed" }

\* How a command can end, in short.
ShortOutcomes ==
    { [out |-> << "h", "i", "\n" >>, status |-> 0],
      [out |-> << "h", "i", "\n" >>, status |-> 7] }

NextCall ==
    \/ (Dispatch /\ UNCHANGED <<extractVars, pairVars, escapeVars, fileVars, trimVars>>)
    \/ (DispatchCaught /\ UNCHANGED <<extractVars, pairVars, escapeVars, fileVars, trimVars>>)
    \/ (NewTabCreates /\ UNCHANGED <<extractVars, pairVars, escapeVars, fileVars, trimVars>>)
    \/ (NewTabAnswers /\ UNCHANGED <<extractVars, pairVars, escapeVars, fileVars, trimVars>>)
    \/ (TailAllRejectsArgs /\ UNCHANGED <<extractVars, pairVars, escapeVars, fileVars, trimVars>>)
    \/ (AllTabInfoStarts /\ UNCHANGED <<extractVars, pairVars, escapeVars, fileVars, trimVars>>)
    \/ (AllTabInfoCounted /\ UNCHANGED <<extractVars, pairVars, escapeVars, fileVars, trimVars>>)
    \/ (AllTabInfoPushes /\ UNCHANGED <<extractVars, pairVars, escapeVars, fileVars, trimVars>>)
    \/ (TailSingleRejectsArgs /\ UNCHANGED <<extractVars, pairVars, escapeVars, fileVars, trimVars>>)
    \/ (TailSingleCounts /\ UNCHANGED <<extractVars, pairVars, escapeVars, fileVars, trimVars>>)
    \/ (TailSingleCounted /\ UNCHANGED <<extractVars, pairVars, escapeVars, fileVars, trimVars>>)
    \/ (TailSingleContentRead /\ UNCHANGED <<extractVars, pairVars, escapeVars, fileVars, trimVars>>)
    \/ (TailSingleAnswers /\ UNCHANGED <<extractVars, pairVars, escapeVars, fileVars, trimVars>>)
    \/ (AsyncRejectsArgs /\ UNCHANGED <<extractVars, pairVars, escapeVars, fileVars, trimVars>>)
    \/ (AsyncSends /\ UNCHANGED <<extractVars, pairVars, escapeVars, fileVars, trimVars>>)
    \/ (AsyncSent /\ UNCHANGED <<extractVars, pairVars, escapeVars, fileVars, trimVars>>)
    \/ (AsyncWaited /\ UNCHANGED <<extractVars, pairVars, escapeVars, fileVars, trimVars>>)
    \/ (AsyncAnswers /\ UNCHANGED <<extractVars, pairVars, escapeVars, fileVars, trimVars>>)
    \/ (ControlRejectsArgs /\ UNCHANGED <<extractVars, pairVars, escapeVars, fileVars, trimVars>>)
    \/ (ControlSends /\ UNCHANGED <<extractVars, pairVars, escapeVars, fileVars, trimVars>>)
    \/ (ControlAnswers /\ UNCHANGED <<extractVars, pairVars, escapeVars, fileVars, trimVars>>)
    \/ (BlockingRejectsArgs /\ UNCHANGED <<extractVars, pairVars, escapeVars, fileVars, trimVars>>)
    \/ (BlockingSends /\ UNCHANGED <<extractVars, pairVars, escapeVars, fileVars, trimVars>>)
    \/ (BlockingSent /\ UNCHANGED <<extractVars, pairVars, escapeVars, fileVars, trimVars>>)
    \/ (BlockingReads /\ UNCHANGED <<extractVars, pairVars, escapeVars, fileVars, trimVars>>)
    \/ (BlockingAnswers /\ UNCHANGED <<extractVars, pairVars, escapeVars, fileVars, trimVars>>)
    \/ \E a \in Attempt :
           Serving /\ TimeoutFires(a, MaxToolFaults) /\ UNCHANGED <<extractVars, toolVars, pairVars, escapeVars, fileVars, trimVars>>
    \/ \E a \in Attempt : Serving /\ ExecResolves(a) /\ UNCHANGED <<extractVars, toolVars, pairVars, escapeVars, fileVars, trimVars>>
    \/ \E a \in Attempt : Serving /\ ExecRejects(a) /\ UNCHANGED <<extractVars, toolVars, pairVars, escapeVars, fileVars, trimVars>>
    \/ \E a \in Attempt, fault \in ChannelFaults :
           Serving /\ ExecFaults(a, fault, MaxToolFaults) /\ UNCHANGED <<extractVars, toolVars, pairVars, escapeVars, fileVars, trimVars>>
    \/ \E a \in Attempt : Serving /\ PauseOver(a) /\ UNCHANGED <<extractVars, toolVars, pairVars, escapeVars, fileVars, trimVars>>
    \/ \E n \in 1..MaxTabs : Serving /\ ShellStarts(n) /\ UNCHANGED <<extractVars, toolVars, pairVars, escapeVars, fileVars, trimVars>>
    \/ \E n \in 1..MaxTabs, o \in ShortOutcomes :
           Serving /\ ShellFinishes(n, o.out, o.status) /\ UNCHANGED <<extractVars, toolVars, pairVars, escapeVars, fileVars, trimVars>>
    \/ (Serving /\ CloseTab /\ UNCHANGED <<extractVars, toolVars, pairVars, escapeVars, fileVars, trimVars>>)

SpecCall == InitCall /\ [][NextCall]_vars

(***************************************************************************)
(* SpecPair: two invocations of run_command_blocking in one process, on   *)
(* the same tab and served at the same time.  The commands are `true` and  *)
(* `false`, which print nothing and exit with 0 and 1; the channel answers *)
(* every call at its first attempt.                                        *)
(***************************************************************************)
True == << "t", "r", "u", "e" >>

False == << "f", "a", "l", "s", "e" >>

\* The exit status of the command of a marked command line.
StatusOf(line) == IF Includes(line, << " " >> \o False \o << ";" >>) THEN 1 ELSE 0

\* Date.now() at tick t of the clock.
NowAt(t) == CHOOSE n \in NowValues : n[Len(n)] = Digits[t + 1]

Ticks == { t \in 1..9 : \E n \in NowValues : n[Len(n)] = Digits[t + 1] }

Invocations == 1..2

InitPair ==
    /\ ExtractIdle
    /\ calls = <<>>
    /\ attempts = <<>>
    /\ world = [running |-> TRUE, windows |-> 1, tabs |-> Tabs(MaxTabs)]
    /\ faults = 0
    /\ req = NoRequest
    /\ pc = "idle"
    /\ hMarker = <<>>
    /\ loc = NoLocals
    /\ resp = <<>>
    /\ inv = << [pc |-> "called", tab |-> 0, command |-> True, marker |-> <<>>, at |-> 0,
                 call |-> 0, resp |-> <<>>],
                [pc |-> "called", tab |-> 0, command |-> False, marker |-> <<>>, at |-> 0,
                 call |-> 0, resp |-> <<>>] >>
    /\ esc = NoEscape
    /\ files = {}
    /\ trim = NoTrim

\* Invocation k generates its marker and sends its marked command (lines 483-484).
\* The clock does not run backwards between the two.
PairSends(k) ==
    /\ inv[k].pc = "called"
    /\ \E hex \in HexValues, t \in Ticks :
          /\ \A j \in Invocations : inv[j].at <= t
          /\ inv' = [inv EXCEPT ![k].pc = "sending",
                                ![k].marker = generateMarker(hex, NowAt(t)),
                                ![k].at = t,
                                ![k].call = Len(calls) + 1]
          /\ CallRunAppleScript(sendMarkedCommand(inv[k].tab, inv[k].command,
                                                  generateMarker(hex, NowAt(t))),
                                DefaultRetries)
    /\ UNCHANGED <<world, faults>>

\* The send of invocation k has settled (lines 484-487).
PairSent(k) ==
    /\ inv[k].pc = "sending" /\ calls[inv[k].call].state # "pending"
    /\ inv' = IF calls[inv[k].call].state = "resolved"
              THEN [inv EXCEPT ![k].pc = "waiting"]
              ELSE [inv EXCEPT ![k].pc = "done",
                               ![k].resp = << "Error executing command in tab " >>
                                              \o IntToStr(inv[k].tab) \o << ": " >>
                                              \o calls[inv[k].call].value]
    /\ UNCHANGED channelVars

\* A variant with a lock on the tab: an invocation reads only when no other
\* invocation on its tab is awaiting a channel call.
PairReadsLocked(k) ==
    /\ inv[k].pc = "waiting"
    /\ \A j \in Invocations \ {k} :
           inv[j].tab = inv[k].tab => inv[j].pc \notin { "sending", "reading" }
    /\ inv' = [inv EXCEPT ![k].pc = "reading", ![k].call = Len(calls) + 1]
    /\ getTabContent(inv[k].tab)
    /\ UNCHANGED <<world, faults>>

\* The wait of invocation k is over: it asks for the tab's content (line 490).
PairReads(k) ==
    /\ inv[k].pc = "waiting"
    /\ inv' = [inv EXCEPT ![k].pc = "reading", ![k].call = Len(calls) + 1]
    /\ getTabContent(inv[k].tab)
    /\ UNCHANGED <<world, faults>>

\* The read of invocation k has settled: extract and answer (lines 491-500).
PairAnswers(k) ==
    /\ inv[k].pc = "reading" /\ calls[inv[k].call].state # "pending"
    /\ inv' = [inv EXCEPT
                 ![k].pc = "done",
                 ![k].resp = IF calls[inv[k].call].state = "resolved"
                             THEN BlockingResponse(inv[k].tab,
                                      extractMarkedContent(calls[inv[k].call].value,
                                                           inv[k].marker))
                             ELSE << "Error executing command in tab " >>
                                     \o IntToStr(inv[k].tab) \o << ": " >>
                                     \o calls[inv[k].call].value]
    /\ UNCHANGED channelVars

\* The command the tab is running ends, with the exit status that is its own.
ShellEnds(n) ==
    /\ n \in 1..Len(world.tabs)
    /\ world.tabs[n].jobs # <<>>
    /\ ShellFinishes(n, <<>>, StatusOf(Head(world.tabs[n].jobs).line))

NextPair ==
    \/ \E k \in Invocations : PairSends(k) /\ UNCHANGED <<extractVars, req, pc, hMarker, loc, resp, escapeVars, fileVars, trimVars>>
    \/ \E k \in Invocations : PairSent(k) /\ UNCHANGED <<extractVars, req, pc, hMarker, loc, resp, escapeVars, fileVars, trimVars>>
    \/ \E k \in Invocations : PairReads(k) /\ UNCHANGED <<extractVars, req, pc, hMarker, loc, resp, escapeVars, fileVars, trimVars>>
    \/ \E k \in Invocations : PairAnswers(k) /\ UNCHANGED <<extractVars, req, pc, hMarker, loc, resp, escapeVars, fileVars, trimVars>>
    \/ \E a \in Attempt : ExecResolves(a) /\ UNCHANGED <<extractVars, toolVars, pairVars, escapeVars, fileVars, trimVars>>
    \/ \E n \in 1..MaxTabs : ShellStarts(n) /\ UNCHANGED <<extractVars, toolVars, pairVars, escapeVars, fileVars, trimVars>>
    \/ \E n \in 1..MaxTabs : ShellEnds(n) /\ UNCHANGED <<extractVars, toolVars, pairVars, escapeVars, fileVars, trimVars>>

SpecPair == InitPair /\ [][NextPair]_vars

(***************************************************************************)
(* Claims about extractMarkedContent (SpecExtract).                        *)
(***************************************************************************)
XPart(from, to) == Expand(SubSeq(xPieces, from, to), xMarker)

\* <<i, j>>: a START token at piece i, a later END token at piece j carrying status 7.
StartEnd7 ==
    { ij \in (1..Len(xPieces)) \X (1..Len(xPieces)) :
         /\ ij[1] < ij[2]
         /\ ij[2] < Len(xPieces)
         /\ xPieces[ij[1]] = "S"
         /\ xPieces[ij[2]] = "E"
         /\ xPieces[ij[2] + 1] = "7" }

\* The noise before START holds no START token, the body holds no END token with
\* a digit, and the noise after the status does not begin with a digit.
WellFormedAt(i, j) ==
    /\ ~Includes(XPart(1, i - 1), StartMarker(xMarker))
    /\ ~MatchEndMarker(XPart(i + 1, j - 1), xMarker).found
    /\ (j + 2 <= Len(xPieces) => ~IsDigit(XPart(j + 2, j + 2)[1]))

\* C2 as stated: for every marker and any noise X and Y, extract(X + marker-START +
\* body + marker-END:7 + Y, marker) is { content: body trimmed, exitCode: 7 }.
C2_AnyNoise ==
    xpc = "extracted" =>
        \A ij \in StartEnd7 :
            xResult = [content |-> Trim(XPart(ij[1] + 1, ij[2] - 1)), exitCode |-> 7]

\* C2 amended: the same, for noise X that holds no START token of the marker, a body
\* that holds no END:<digit> token of the marker, and noise Y that does not begin
\* with a digit.
C2_WellFormedNoise ==
    xpc = "extracted" =>
        \A ij \in StartEnd7 :
            WellFormedAt(ij[1], ij[2]) =>
                xResult = [content |-> Trim(XPart(ij[1] + 1, ij[2] - 1)), exitCode |-> 7]

\* C2 witness: noise before START, a body with white space around a letter cut
\* away, status 7.
C2_Witness ==
    /\ xpc = "extracted"
    /\ xPieces = <<"a", "S", " ", "a", "E", "7">>
    /\ xResult = [content |-> <<"a">>, exitCode |-> 7]

\* Index of the first START piece, 0 when there is none.
FirstStart ==
    LET ss == { i \in 1..Len(xPieces) : xPieces[i] = "S" }
    IN  IF ss = {} THEN 0 ELSE SetMin(ss)

\* An END token with at least one digit lies after the first START token.
EndAfterFirstStart ==
    /\ FirstStart # 0
    /\ \E j \in (FirstStart + 1)..(Len(xPieces) - 1) : xPieces[j] = "E" /\ xPieces[j + 1] = "7"

\* C3: with the START token present and no END:<digits> token after it, extract
\* returns exitCode -1 and, untrimmed, everything after the first START token.
C3_PartialOutput ==
    (xpc = "extracted" /\ FirstStart # 0 /\ ~EndAfterFirstStart) =>
        xResult = [content |-> XPart(FirstStart + 1, Len(xPieces)), exitCode |-> -1]

\* C3 witness: partial output that begins and ends with a blank is returned as is.
C3_Witness ==
    /\ xpc = "extracted"
    /\ xPieces = <<"a", "S", " ", "a", " ">>
    /\ xResult = [content |-> <<" ", "a", " ">>, exitCode |-> -1]

\* C4: without the START token the result is { content: "", exitCode: -1 }, whatever
\* END tokens the dump holds; and exitCode differs from -1 exactly when an
\* END:<digits> token follows the first START token.
C4_SentinelExitCode ==
    xpc = "extracted" =>
        /\ (FirstStart = 0 => xResult = [content |-> <<>>, exitCode |-> -1])
        /\ (xResult.exitCode # -1 <=> EndAfterFirstStart)

\* C4 witness: an END token with a status printed before the START token is ignored.
C4_Witness ==
    /\ xpc = "extracted"
    /\ xPieces = <<"E", "7", "S", "a">>
    /\ xResult.exitCode = -1


(***************************************************************************)
(* Claims about runAppleScript (SpecInvoke).                               *)
(***************************************************************************)
AttemptsOf(c) == { a \in 1..Len(attempts) : attempts[a].call = c }

TimedOut(a) == attempts[a].timer = "fired"

\* C5 as stated: with retries = 2, when the first and the second attempt time out
\* and the third attempt succeeds (within its own timeout), the promise is
\* resolved with the third attempt's output.
C5_ThirdAttemptWins ==
    (/\ Len(calls) = 1 /\ calls[1].retries = 2
     /\ Len(attempts) >= 3
     /\ TimedOut(1) /\ TimedOut(2)
     /\ attempts[3].exec = "ok" /\ attempts[3].timer = "cleared")
    => (calls[1].state = "resolved" /\ calls[1].value = attempts[3].text)

\* C6 as stated: when the first attempt fails, within its timeout, with an error
\* that is not transient (a script's 'Tab index out of range' error, say), the
\* call is rejected at once as failed and no further attempt is made.
C6_FatalErrorNotRetried ==
    (/\ Len(calls) = 1
     /\ attempts[1].exec = "error" /\ attempts[1].timer = "cleared"
     /\ ~ReportedTransient(attempts[1].text))
    => (/\ Len(attempts) = 1
        /\ attempts[1].pause = "none"
        /\ calls[1].state = "rejected" /\ calls[1].kind = "failed")

\* C7 as stated: a call starts at most retries + 1 attempts.
C7_AttemptsBounded ==
    \A c \in 1..Len(calls) : Cardinality(AttemptsOf(c)) <= calls[c].retries + 1

\* C8 as stated: the call is rejected with the timeout error when all of its
\* retries + 1 attempts timed out, with the 'unavailable' error when all of them
\* failed in time with a transient error, and with the timeout error only if no
\* attempt completed within its timeout.
C8_RejectionKinds ==
    Len(calls) = 1 =>
        /\ (/\ Len(attempts) = calls[1].retries + 1
            /\ \A a \in 1..Len(attempts) : TimedOut(a))
           => (calls[1].state = "rejected" /\ calls[1].kind = "timeout")
        /\ (/\ Len(attempts) = calls[1].retries + 1
            /\ \A a \in 1..Len(attempts) :
                  /\ attempts[a].exec = "error" /\ attempts[a].timer = "cleared"
                  /\ ReportedTransient(attempts[a].text))
           => (calls[1].state = "rejected" /\ calls[1].kind = "unavailable")
        /\ (calls[1].state = "rejected" /\ calls[1].kind = "timeout")
           => \A a \in 1..Len(attempts) :
                  ~(attempts[a].exec = "ok" /\ attempts[a].timer = "cleared")

\* C9 as stated: once the promise has settled, none of the call's timeout timers
\* is pending.
C9_NoTimerAfterSettled ==
    \A c \in 1..Len(calls) :
        calls[c].state # "pending" =>
            \A a \in AttemptsOf(c) : attempts[a].timer # "pending"

(***************************************************************************)
(* Claims about run_command_blocking and getTabContent (SpecTool).         *)
(***************************************************************************)
\* The handler has answered from a tab content it read: the second channel call
\* of the request is the read.
Answered == pc = "done" /\ Len(calls) = 2 /\ calls[2].state = "resolved"

\* The tab content the handler read.
ReadText == calls[2].value

\* Position of the first START token of this request's marker in the content
\* read, 0 when there is none.
ReadStart ==
    LET t  == StartMarker(hMarker)
        ss == { i \in 1..(Len(ReadText) - Len(t) + 1) :
                   ReadText[i] = "=" /\ SubSeq(ReadText, i, i + Len(t) - 1) = t }
    IN  IF ss = {} THEN 0 ELSE SetMin(ss)

\* Positions, after the START token at position p, of the END tokens that carry
\* a digit.
ReadEnds(p) ==
    LET t == EndPrefix(hMarker)
        n == Len(t)
    IN  { j \in (p + Len(StartMarker(hMarker)))..(Len(ReadText) - n) :
             /\ ReadText[j] = "="
             /\ SubSeq(ReadText, j, j + n - 1) = t
             /\ IsDigit(ReadText[j + n]) }

\* The status carried by the END token at position j: its run of digits.
ReadStatus(j) ==
    LET d0   == j + Len(EndPrefix(hMarker))
        dEnd == CHOOSE k \in d0..Len(ReadText) :
                    /\ \A m \in d0..k : IsDigit(ReadText[m])
                    /\ (k = Len(ReadText) \/ ~IsDigit(ReadText[k + 1]))
    IN  ParseInt(SubSeq(ReadText, d0, dEnd))

\* The text between the START token at position p and the END token at position
\* j, without the white space around it.
ReadOutput(p, j) == Trim(SubSeq(ReadText, p + Len(StartMarker(hMarker)), j - 1))

\* C1 as stated: when the content read holds the START token followed by the END
\* token with status n, the response contains "exit code n" and the output found
\* between the two tokens.
C1_ResponseHoldsOutput ==
    Answered =>
        LET p    == ReadStart
            ends == IF p = 0 THEN {} ELSE ReadEnds(p)
        IN  ends # {} =>
               LET j   == SetMin(ends)
                   out == ReadOutput(p, j)
               IN  /\ Includes(resp, << "exit code " >> \o IntToStr(ReadStatus(j)))
                   /\ Includes(resp, out)

\* C1 amended: in that case the response contains "exit code n" and the output
\* found between the first START token and the first END token with a status
\* after it, cut to its first DefaultMaxSize characters and followed by the
\* truncation notice when it is longer than that.
C1_ResponseHoldsCutOutput ==
    Answered =>
        LET p    == ReadStart
            ends == IF p = 0 THEN {} ELSE ReadEnds(p)
        IN  ends # {} =>
               LET j   == SetMin(ends)
                   out == ReadOutput(p, j)
               IN  /\ Includes(resp, << "exit code " >> \o IntToStr(ReadStatus(j)))
                   /\ IF Len(out) <= DefaultMaxSize
                      THEN Includes(resp, out)
                      ELSE /\ Includes(resp, SubSeq(out, 1, DefaultMaxSize) \o TrimmedNote)
                           /\ ~Includes(resp, SubSeq(out, 1, DefaultMaxSize + 1))

\* C1 witness: "echo hi" has run on tab 0 and ended with status 0; the response
\* shows exit code 0 and the line hi that the command printed after the START token.
C1_Witness ==
    /\ Answered
    /\ req.tab = Num(0) /\ req.command = Str(EchoHi)
    /\ Includes(ReadText, StartMarker(hMarker) \o << "\n", "h", "i", "\n" >>
                             \o EndPrefix(hMarker) \o << "0" >>)
    /\ Includes(resp, << "exit code ", "0" >>)
    /\ Includes(resp, StartMarker(hMarker) \o << "\n", "h", "i" >>)

\* The attempts of the request's read of the tab content.
ReadAttempts == { a \in 1..Len(attempts) : attempts[a].call = 2 /\ attempts[a].exec # "running" }

\* The attempt ended with a failure of the channel itself, not of the script.
ChannelFailed(a) ==
    \E fault \in ChannelFaults :
        attempts[a].text = FaultMessage(calls[attempts[a].call].script, fault)

\* C10: getTabContent(i) is reached only with a non-negative integer i; the script
\* succeeds whenever i is less than the number of tabs it finds, and then returns
\* the content of the tab at index i and of no other; and it fails with the error
\* 'Tab index out of range' whenever i is not less than that number.
C10_TabContentBounds ==
    /\ (calls # <<>> => (req.tab.t = "number" /\ req.tab.int /\ req.tab.v >= 0))
    /\ \A a \in ReadAttempts :
          LET i    == req.tab.v
              tabs == attempts[a].saw.tabs
          IN  /\ calls[2].script.tab = i + 1
              /\ (i < Len(tabs) /\ ~ChannelFailed(a)) =>
                    /\ attempts[a].exec = "ok"
                    /\ attempts[a].text = Trim(tabs[i + 1].content)
              /\ (i >= Len(tabs) /\ ~ChannelFailed(a)) =>
                    /\ attempts[a].exec = "error"
                    /\ Includes(attempts[a].text, << "Tab index out of range" >>)
              /\ attempts[a].exec = "ok" => i < Len(tabs)

\* C10 witness: with two tabs open, the content of tab 1 has been read, and it is
\* not what tab 0 shows.
C10_Witness ==
    /\ req.tab = Num(1)
    /\ \E a \in ReadAttempts :
          /\ attempts[a].exec = "ok"
          /\ Len(attempts[a].saw.tabs) = 2
          /\ attempts[a].text = Trim(attempts[a].saw.tabs[2].content)
          /\ attempts[a].text # Trim(attempts[a].saw.tabs[1].content)

(***************************************************************************)
(* Claims about the tools and the dispatcher (SpecCall).                   *)
(***************************************************************************)
\* The call is the one for the number of tabs, and it has returned a number.
CountedBy(c) ==
    /\ Len(calls) >= c
    /\ calls[c].script = getTabCountScript
    /\ calls[c].state = "resolved"

\* C11: tail_tab_single, for a valid tab index that is not less than the number of
\* tabs the count query reports: the answer is an error text that holds "out of
\* bounds" and "<n> tabs", n being the reported number, and no call to the channel
\* is made but the one query for the number of tabs.
C11_OutOfBoundsTab ==
    (/\ req.tool = "iterm_tail_tab_single"
     /\ validateTabIndex(req.tab).valid
     /\ CountedBy(1)
     /\ req.tab.v >= ParseInt(calls[1].value))
    => /\ Len(calls) = 1
       /\ \A a \in Attempt : calls[attempts[a].call].script = getTabCountScript
       /\ pc = "done" =>
             /\ Includes(resp, << "out of bounds" >>)
             /\ Includes(resp, IntToStr(ParseInt(calls[1].value)) \o << " tabs" >>)
             /\ Substring(resp, 0, 1) = << "Error: Tab index " >>

\* C11 witness: the window has one tab when tab 1 is asked for; the
\* count is 1, and the answer is the bounds error.
C11_Witness ==
    /\ req.tool = "iterm_tail_tab_single"
    /\ req.tab = Num(1)
    /\ pc = "done"
    /\ CountedBy(1)
    /\ calls[1].value = << "1" >>
    /\ Len(attempts[calls[1].by].saw.tabs) = 1
    /\ Includes(resp, << "out of bounds" >>)
    /\ Includes(resp, << "1", " tabs" >>)

\* The attempts that have ended, of scripts that act on a tab.
TabAttempts ==
    { a \in Attempt : /\ attempts[a].exec # "running"
                      /\ calls[attempts[a].call].script.kind
                            \in { "getTabContent", "getTabInfo", "session" } }

\* What the attempt's script wrote to stderr: what follows the command line in
\* the message of the error.
StderrOf(a) == SubstringFrom(attempts[a].text, IndexOf(attempts[a].text, << "'", "\n" >>) + 2)

\* The checks of a tab script, run against the terminal it found.
ChecksOf(a) ==
    LET script == calls[attempts[a].call].script
        saw    == attempts[a].saw
        failed == attempts[a].exec = "error"
    IN  /\ ~saw.running => (failed /\ Includes(StderrOf(a), << "not running" >>))
        /\ (saw.running /\ saw.windows = 0) =>
               (failed /\ Includes(StderrOf(a), << "No iTerm2 windows are open" >>))
        /\ (saw.running /\ saw.windows > 0 /\ script.tab > Len(saw.tabs)) =>
               /\ failed
               /\ Includes(StderrOf(a),
                     << "Tab index out of range", ". Requested " >> \o IntToStr(script.tab)
                        \o << ", but only " >> \o IntToStr(Len(saw.tabs)) \o << " tabs exist." >>)
        /\ attempts[a].exec = "ok" =>
               (saw.running /\ saw.windows > 0 /\ script.tab <= Len(saw.tabs))

\* An attempt's script ends with an error in this step.
ScriptFails == \E a \in Attempt : attempts[a].exec = "running" /\ attempts'[a].exec = "error"

\* C12: every script that acts on a tab checks, in the osascript run that acts,
\* that iTerm2 is running, that a window exists and that the index is within the
\* number of tabs of that moment; out of range, the run fails with the bounds error
\* that names the index and the number of tabs, and a run that fails leaves every
\* tab as it was.
C12_TabScriptsGuarded ==
    /\ [](\A a \in TabAttempts : ChannelFailed(a) \/ ChecksOf(a))
    /\ [][ScriptFails => world' = world]_vars

\* C12 witness: a control character was sent to a tab the window does not have;
\* the script failed with the bounds error, and no tab has received anything.
C12_Witness ==
    \E a \in TabAttempts :
        /\ calls[attempts[a].call].script.kind = "session"
        /\ IsWriteHex(calls[attempts[a].call].script.op)
        /\ attempts[a].saw.running
        /\ calls[attempts[a].call].script.tab > Len(attempts[a].saw.tabs)
        /\ Includes(StderrOf(a), << "Tab index out of range" >>)
        /\ \A n \in 1..Len(world.tabs) : world.tabs[n].ctl = <<>> /\ world.tabs[n].jobs = <<>>

\* The tools that take the argument.
TakesTab ==
    req.tool \in { "iterm_tail_tab_single", "iterm_run_command_blocking",
                   "iterm_run_command_async", "iterm_control_code" }

TakesCommand == req.tool \in { "iterm_run_command_blocking", "iterm_run_command_async" }

\* The argument is given and is not a non-negative integer.
NotNonNegativeInteger(x) == x.t # "undefined" /\ (x.t # "number" \/ ~x.int \/ x.v < 0)

\* The argument is given and is not a non-negative number.
NotNonNegativeNumber(x) == x.t # "undefined" /\ (x.t # "number" \/ x.v < 0)

\* The request has an invalid numeric argument, or lacks a required one.
BadArguments ==
    \/ TakesTab /\ (req.tab.t = "undefined" \/ NotNonNegativeInteger(req.tab))
    \/ TakesCommand /\ (req.command.t = "undefined" \/ NotNonNegativeNumber(req.wait))
    \/ req.tool \in { "iterm_tail_tab_all", "iterm_tail_tab_single" }
          /\ NotNonNegativeInteger(req.lines)
    \/ req.tool = "iterm_run_command_async" /\ NotNonNegativeInteger(req.tailLines)
    \/ req.tool = "iterm_control_code" /\ req.letter.t = "undefined"

\* The texts the validators answer with, up to the value they quote.
ValidationErrors ==
    { "Error: tab parameter is required.",
      "Error: tab parameter must be a non-negative integer, got ",
      "Error: command parameter is required.",
      "Error: wait parameter must be a non-negative number",
      "Error: ",
      "Error: letter parameter is required.",
      "Error: Letter must be a single character from A-Z." }

\* C13 as stated: for every tool, a request with an invalid numeric argument (tab,
\* lines, tailLines not a non-negative integer, wait not a non-negative number) or
\* without a required argument is answered with a descriptive error text, and no
\* call to the channel is made while it is served.
C13_BadArgumentsRejected ==
    (req.tool \in ToolNames /\ BadArguments)
    => /\ calls = <<>>
       /\ pc = "done" => (resp # <<>> /\ resp[1] \in ValidationErrors)

\* The letter argument is one character from A to Z, in either case.
SingleLetter(letter) ==
    /\ letter.t = "string"
    /\ Len(letter.s) = 1
    /\ \E k \in 1..26 : letter.s[1] \in { LowerCase[k], UpperCase[k] }

\* ord(uppercase L) - 64, for a letter L of either case.
ControlByteOf(letter) ==
    CHOOSE k \in 1..26 : letter.s[1] \in { LowerCase[k], UpperCase[k] }

\* The response says the control character was sent.
ControlSent == pc = "done" /\ resp # <<>> /\ resp[1] = "Control-"

\* A control_code request with a tab argument that passes validation.
ControlRequest == req.tool = "iterm_control_code" /\ validateTabIndex(req.tab).valid

\* Every letter that is not a single character A-Z, of either case, is rejected
\* with an error text and without a call to the channel.
C14_OtherLettersRejected ==
    (ControlRequest /\ ~SingleLetter(req.letter))
    => /\ calls = <<>>
       /\ pc = "done" => (resp # <<>> /\ resp[1] \in ValidationErrors)

\* For a valid letter, what the requested tab has received when the tool says it
\* was sent is the one byte ord(uppercase L) - 64.
C14_OneControlByte ==
    (ControlRequest /\ SingleLetter(req.letter) /\ ControlSent)
    => /\ req.tab.v + 1 <= Len(world.tabs)
       /\ world.tabs[req.tab.v + 1].ctl = << ControlByteOf(req.letter) >>
       /\ ControlByteOf(req.letter) \in 1..26

\* C14 as stated: control_code rejects, with an error text and without any channel
\* call, every letter that is not a single character A-Z (case-insensitive), and for
\* a valid letter L sends exactly one control byte of value ord(uppercase L) - 64 to
\* the requested tab.
C14_ControlCode == C14_OtherLettersRejected /\ C14_OneControlByte

\* C15: whatever the request (one of the seven tools or an unknown name, any
\* arguments) and whatever fails while it is served (a validation, the channel, an
\* exception thrown by a handler or a validator), the request never ends with an
\* error leaving the dispatcher: an error thrown by a handler is caught there, and
\* the request ends with a response that carries a text; for an unknown tool name
\* the text is an error that names the tool.
C15_ErrorsAreData ==
    /\ pc = "threw" => ENABLED DispatchCaught
    /\ pc # "failed"
    /\ pc = "done" =>
          /\ resp # <<>>
          /\ req.tool \notin ToolNames => resp = << "Unknown tool \"", req.tool, "\"" >>

\* C15 witness: a letter that is a number makes validate.letter throw; the
\* dispatcher answers with the text of the error.
C15_Witness ==
    /\ req.tool = "iterm_control_code"
    /\ req.letter = Num(3)
    /\ pc = "done"
    /\ resp = << "Error: ", "letter.toUpperCase is not a function" >>
    /\ calls = <<>>

(***************************************************************************)
(* Claims about two invocations at the same time (SpecPair).               *)
(***************************************************************************)
\* The exit code invocation k reports, or -1 when it reports none.
ReportedCode(k) ==
    LET at   == IndexOf(inv[k].resp, << "exit code " >>)
        rest == SubstringFrom(inv[k].resp, at + 1)
    IN  IF at = -1 THEN -1 ELSE ParseInt(Substring(rest, 0, IndexOf(rest, << "." >>)))

\* The exit status of the command of the invocation.
OwnStatus(k) == IF inv[k].command = False THEN 1 ELSE 0

\* No two invocations use the same marker.
C16_MarkersDiffer ==
    \A j, k \in DOMAIN inv :
        (j # k /\ inv[j].marker # <<>> /\ inv[k].marker # <<>>) => inv[j].marker # inv[k].marker

\* The exit code an invocation reports is that of its own command.
C16_OwnExitCode ==
    \A k \in DOMAIN inv :
        (inv[k].pc = "done" /\ ReportedCode(k) # -1) => ReportedCode(k) = OwnStatus(k)

\* C16 as stated: every invocation generates a marker of its own just before it
\* sends, no two invocations use the same marker, and so, however two invocations
\* on the same tab interleave, the exit code an invocation reports is the one
\* echoed with its own END marker, never the status of the other command.
C16_OwnMarkerOwnStatus == C16_MarkersDiffer /\ C16_OwnExitCode

\* With different markers, the exit code reported is the invocation's own.
C16_OwnExitCodeIfMarkersDiffer == C16_MarkersDiffer => C16_OwnExitCode

(***************************************************************************)
(* Claims about the marked command as a tool call sends it (SpecCall).     *)
(***************************************************************************)
\* The calls that write a text to a tab.
WriteTextCalls ==
    { c \in 1..Len(calls) : calls[c].script.kind = "session" /\ ~IsWriteHex(calls[c].script.op) }

\* The text the script of the call types into the tab.
SentText(c) == WrittenText(calls[c].script.op).text

Echo(token) == << "e", "c", "h", "o", " ", "\"" >> \o token \o << "\"" >>

\* The four parts of a marked command line, in order: the echo of the START
\* token, the command, the capture of its exit status, the echo of the END token
\* with the status captured.
InOrder(command, marker) ==
    Echo(marker \o << "-", "S", "T", "A", "R", "T" >>)
       \o << ";", " " >> \o command
       \o << ";", " ", "R", "E", "S", "U", "L", "T", "=", "$", "?" >>
       \o << ";", " " >>
       \o Echo(marker \o << "-", "E", "N", "D", ":", "$", "R", "E", "S", "U", "L", "T" >>)

\* The marker that stands in the first echo of a marked command line.
EmbeddedMarker(text) == Substring(text, 6, IndexOf(text, << "-", "S", "T", "A", "R", "T" >>))

\* The request runs a command.
RunsCommand == req.tool \in { "iterm_run_command_blocking", "iterm_run_command_async" }

\* The response of the tool for the content it read, extracted with the marker.
ResponseWith(content, marker) ==
    IF req.tool = "iterm_run_command_blocking"
    THEN BlockingResponse(req.tab.v, extractMarkedContent(content, marker))
    ELSE AsyncOutputMessage(extractMarkedContent(content, marker))

StepsInOrder ==
    /\ pc = "called" => calls = <<>>
    /\ pc = "sending" =>
          (Len(calls) = 1 /\ calls[1].script = sendMarkedCommand(req.tab.v, req.command.s, hMarker))
    /\ pc = "waiting" => (Len(calls) = 1 /\ calls[1].state = "resolved")
    /\ pc = "reading" =>
          /\ Len(calls) = 2
          /\ calls[1].state = "resolved"
          /\ calls[2].script = getTabContentScript(req.tab.v)
    /\ (pc = "done" /\ resp # <<>> /\ resp[1] \in { "Command is still running in tab ",
                                                   "Command completed in tab " }) =>
          (Len(calls) = 2 /\ calls[2].state = "resolved")
    /\ Len(calls) <= 2

\* The wait ends by itself, with the read: no step of the terminal or of the
\* channel ends it, and the step that ends it leaves the terminal as it is and
\* makes the call that reads the content.
WaitEndsByItself ==
    (pc = "waiting" /\ pc' # "waiting") =>
        /\ pc' = "reading"
        /\ world' = world
        /\ Len(calls') = 2
        /\ calls'[2].script = getTabContentScript(req.tab.v)

\* What follows the first START token in the content read, when no END token with
\* a status follows it; the empty text when there is no START token either.
PartialOutput(p) ==
    IF p = 0 THEN <<>> ELSE SubSeq(ReadText, p + Len(StartMarker(hMarker)), Len(ReadText))

StillRunning ==
    << "Command is still running in tab " >> \o IntToStr(req.tab.v)
       \o << " (no completion marker found).", " Output:\n\n" >>

\* The content read holds no END token with a status after the START token.
NoEndRead(p) == p = 0 \/ ReadEnds(p) = {}

\* C18 as stated: the steps are taken strictly in the order send, wait, read,
\* extract; the wait is not cut short or extended by the command; and when the
\* content read holds no END token the call still returns, and reports that the
\* command is still running together with the partial output after the START token.
C18_StillRunningWithOutput ==
    /\ []StepsInOrder
    /\ [][WaitEndsByItself]_vars
    /\ [](Answered =>
            LET p == ReadStart
            IN  NoEndRead(p) => resp = StillRunning \o PartialOutput(p))

\* C18, amended: as stated, the partial output being cut to its first 5000
\* characters, followed by the notice, when it is longer.
C18_StillRunningWithCutOutput ==
    /\ []StepsInOrder
    /\ [][WaitEndsByItself]_vars
    /\ [](Answered =>
            LET p       == ReadStart
                partial == PartialOutput(p)
            IN  NoEndRead(p) =>
                   resp = StillRunning
                             \o (IF Len(partial) <= 5000 THEN partial
                                 ELSE SubSeq(partial, 1, 5000) \o TrimmedNote))

\* C18 witness: the content was read while the command was running and had
\* printed; the answer says it is still running and holds what it had printed.
C18_Witness ==
    /\ Answered
    /\ ReadStart # 0
    /\ ReadEnds(ReadStart) = {}
    /\ Includes(ReadText, StartMarker(hMarker) \o << "\n", "h", "i" >>)
    /\ Includes(resp, << "Command is still running in tab " >>)
    /\ Includes(resp, StartMarker(hMarker) \o << "\n", "h", "i" >>)

\* The calls of the channel whose script writes a byte to a tab.
WriteHexCalls ==
    { c \in 1..Len(calls) : calls[c].script.kind = "session" /\ IsWriteHex(calls[c].script.op) }

\* In this step an osascript run of the control byte script of a control_code
\* request ends well on tab n.
ControlByteDelivered(n) ==
    /\ req.tool = "iterm_control_code"
    /\ \E a \in Attempt :
           /\ attempts[a].exec = "running"
           /\ attempts'[a].exec = "ok"
           /\ attempts[a].call \in WriteHexCalls
           /\ calls[attempts[a].call].script.tab = n

\* In this step the command tab n is running ends by itself: the server takes no
\* step, and the tab shows what the command printed, its END line and the prompt.
CommandEndsByItself(n) ==
    /\ UNCHANGED <<calls, attempts, faults, toolVars>>
    /\ world.tabs[n].jobs # <<>>
    /\ Head(world.tabs[n].jobs).started
    /\ world'.tabs[n].jobs = Tail(world.tabs[n].jobs)
    /\ \E o \in ShortOutcomes :
           world'.tabs[n].content =
               world.tabs[n].content \o o.out
                  \o LastEcho(Head(world.tabs[n].jobs).line, o.status) \o Prompt

\* What a step does to the commands and the control bytes of tab n.
TabStep(n) ==
    /\ world'.tabs[n].ctl # world.tabs[n].ctl =>
           /\ ControlByteDelivered(n)
           /\ Len(world'.tabs[n].ctl) = Len(world.tabs[n].ctl) + 1
    /\ Len(world'.tabs[n].jobs) < Len(world.tabs[n].jobs) =>
           \/ CommandEndsByItself(n)
           \/ ControlByteDelivered(n) /\ world'.tabs[n].ctl = Append(world.tabs[n].ctl, Interrupt)
    /\ Len(world'.tabs[n].jobs) >= Len(world.tabs[n].jobs) =>
           \A j \in 1..Len(world.tabs[n].jobs) :
               world'.tabs[n].jobs[j].line = world.tabs[n].jobs[j].line

\* C19: a control byte reaches a tab only through the script of a control_code
\* request, which no other tool calls; a command that was sent leaves its tab only
\* by ending by itself or by the interrupt byte of a control_code request, whatever
\* times out, is retried or fails.
C19_OnlyControlCodeStops ==
    /\ [](WriteHexCalls # {} => (req.tool = "iterm_control_code" /\ WriteHexCalls = {1}))
    /\ [](\A n \in 1..Len(world.tabs) :
              world.tabs[n].ctl # <<>> => req.tool = "iterm_control_code")
    /\ [][\A n \in 1..Len(world.tabs) : n <= Len(world'.tabs) => TabStep(n)]_vars

\* C19 witness: Control-C is delivered to the tab while the command sent earlier
\* is still running there; the command is given up at the interrupt, without
\* its END line.
C19_Witness ==
    /\ req.tool = "iterm_control_code"
    /\ ControlSent
    /\ Len(world.tabs) = 1
    /\ world.tabs[1].ctl = << Interrupt >>
    /\ world.tabs[1].jobs = <<>>
    /\ world.tabs[1].content = BusyWorld.tabs[1].content \o << "^", "C", "\n" >> \o Prompt

\* The request is served by getAllTabInfo, which has got the number of tabs from
\* its count query.
Listing ==
    /\ req.tool \in { "iterm_get_all_tabs_info", "iterm_tail_tab_all" }
    /\ CountedBy(1)
    /\ pc \in { "info", "done" }

\* The call of the channel for the tab of the k-th snapshot.
QueryOf(k) == calls[k + 1]

\* The k-th snapshot is the one of its own query, whatever the other queries did:
\* of a query that failed, the error with its message; of one that returned, what
\* the tab showed to the osascript run that answered.
OwnSnapshot(k) ==
    LET tab == loc.tabs[k]
        q   == QueryOf(k)
    IN  /\ q.script = getTabInfoScript(k - 1)
        /\ q.state # "pending"
        /\ tab.index = k - 1
        /\ q.state = "rejected" =>
               /\ tab = FailedTabInfo(k - 1, q.value)
               /\ tab.content = << "Error accessing tab: " >> \o q.value
        /\ q.state = "resolved" =>
               /\ tab = parseSingleTabInfo(q.value, k - 1)
               /\ tab.name = attempts[q.by].saw.tabs[k].name
               /\ tab.content = Trim(attempts[q.by].saw.tabs[k].content)

\* The list is returned: the handler has answered from it.
Listed == Listing /\ pc = "done"

\* C20: when the count query returns n, getAllTabInfo returns n snapshots with
\* the indices 0..n-1 in order, whichever queries of tabs fail; the snapshot of a
\* tab whose query failed records the error, every snapshot is that of its own
\* query alone, and a snapshot once taken is not changed by a later query.
C20_PartialFailureIsolation ==
    /\ [](Listing =>
              /\ Len(loc.tabs) <= loc.tabCount
              /\ loc.tabCount = ParseInt(calls[1].value)
              /\ \A k \in 1..Len(loc.tabs) : OwnSnapshot(k))
    /\ [](Listed =>
              /\ Len(loc.tabs) = loc.tabCount
              /\ Len(calls) = loc.tabCount + 1
              /\ resp = AllTabInfoResponse(loc.tabs))
    /\ [][Listing => SubSeq(loc'.tabs, 1, Len(loc.tabs)) = loc.tabs]_vars

\* C20 witness: the count is 2, the query of tab 0 fails and the one of tab 1
\* returns; the list has the error snapshot of tab 0 and then the snapshot of
\* tab 1 as the terminal shows it.
C20_Witness ==
    /\ Listed
    /\ req.tool = "iterm_get_all_tabs_info"
    /\ loc.tabCount = 2
    /\ QueryOf(1).state = "rejected"
    /\ QueryOf(2).state = "resolved"
    /\ IndexOf(loc.tabs[1].content, << "Error accessing tab: " >>) = 0
    /\ loc.tabs[2].index = 1
    /\ loc.tabs[2].name = TabName(2)
    /\ loc.tabs[2].content = Trim(TabText(2))

\* Both queries fail, and the list still has both snapshots.
C20_AllFail ==
    /\ Listed
    /\ loc.tabCount = 2
    /\ QueryOf(1).state = "rejected"
    /\ QueryOf(2).state = "rejected"

(***************************************************************************)
(* SpecInfo: one get_all_tabs_info request against a window with one tab,  *)
(* for every short content of the tab; the channel answers every call at   *)
(* its first attempt.                                                      *)
(***************************************************************************)
\* Length of the tab's content, at most.
MaxContentLen == 4

\* What the content is made of: a prompt character, a letter, a blank, a line break.
InfoAlphabet == { "$", "a", " ", "\n" }

InfoContents == UNION { [1..n -> InfoAlphabet] : n \in 0..MaxContentLen }

InitInfo ==
    /\ ExtractIdle
    /\ calls = <<>>
    /\ attempts = <<>>
    /\ \E content \in InfoContents :
           world = [running |-> TRUE, windows |-> 1,
                    tabs |-> << [name |-> TabName(1), content |-> content, jobs |-> <<>>,
                                 ctl |-> <<>>] >>]
    /\ faults = 0
    /\ req = Request("iterm_get_all_tabs_info", Undefined, Undefined, Undefined, Undefined,
                     Undefined, Undefined)
    /\ pc = "requested"
    /\ hMarker = <<>>
    /\ loc = NoLocals
    /\ inv = <<>>
    /\ esc = NoEscape
    /\ files = {}
    /\ trim = NoTrim
    /\ resp = <<>>

NextInfo ==
    \/ (Dispatch /\ UNCHANGED <<extractVars, pairVars, escapeVars, fileVars, trimVars>>)
    \/ (AllTabInfoStarts /\ UNCHANGED <<extractVars, pairVars, escapeVars, fileVars, trimVars>>)
    \/ (AllTabInfoCounted /\ UNCHANGED <<extractVars, pairVars, escapeVars, fileVars, trimVars>>)
    \/ (AllTabInfoPushes /\ UNCHANGED <<extractVars, pairVars, escapeVars, fileVars, trimVars>>)
    \/ \E a \in Attempt : ExecResolves(a) /\ UNCHANGED <<extractVars, toolVars, pairVars, escapeVars, fileVars, trimVars>>

SpecInfo == InitInfo /\ [][NextInfo]_vars

\* The lines of a text: what stands between its line breaks.
LineOf(text, k) ==
    LET breaks == SelectSeq(Positions(text), LAMBDA i : text[i] = "\n")
        from   == IF k = 1 THEN 1 ELSE breaks[k - 1] + 1
        to     == IF k = Len(breaks) + 1 THEN Len(text) ELSE breaks[k] - 1
    IN  SubSeq(text, from, to)

LineCount(text) == Len(SelectSeq(Positions(text), LAMBDA i : text[i] = "\n")) + 1

\* Whether the last non-empty line of the content, the empty lines after it
\* skipped, ends with a prompt character.
PromptLast(content) ==
    LET full == { k \in 1..LineCount(content) : LineOf(content, k) # <<>> }
    IN  /\ full # {}
        /\ LET k    == CHOOSE j \in full : \A m \in full : m <= j
               line == LineOf(content, k)
           IN  line[Len(line)] \in { "%", "$", ">" }

\* The same of the last line, empty or not.
PromptAtEnd(content) ==
    LET line == LineOf(content, LineCount(content))
    IN  line # <<>> /\ line[Len(line)] \in { "%", "$", ">" }

\* C21: the snapshot of a tab has isRunning = false exactly when the last
\* non-empty line of the tab's content ends with '%', '$' or '>'.
C21_IdleIffPromptLast ==
    Listed => (~loc.tabs[1].isRunning <=> PromptLast(world.tabs[1].content))

\* The snapshot has isRunning = false exactly when the very last line of the
\* content, empty or not, ends with '%', '$' or '>'.
C21_IdleIffPromptAtEnd ==
    Listed => (~loc.tabs[1].isRunning <=> PromptAtEnd(world.tabs[1].content))

\* A run_command_async request whose arguments pass the validation.
AsyncServed ==
    /\ req.tool = "iterm_run_command_async"
    /\ pc \notin { "requested", "called" }
    /\ calls # <<>>

\* The request was answered with the message of success.
AsyncSucceeded ==
    /\ AsyncServed
    /\ pc = "done"
    /\ IndexOf(resp, << "Command \"" >>) = 0

\* The END line of the marker, with a status, stands after the first START
\* marker in the content.
EndObserved(content, marker) ==
    LET at    == IndexOf(content, StartMarker(marker))
        after == SubstringFrom(content, at + Len(StartMarker(marker)))
    IN  /\ at # -1
        /\ \E d \in 1..10 : Includes(after, EndPrefix(marker) \o << Digits[d] >>)

\* The output part of the response: what follows the line `Output (last n lines):`.
OutputPart == SubstringFrom(resp, IndexOf(resp, << " lines):", "\n", "\n" >>) + 3)

\* Whether the text is made of the last lines, n at most, of the content.
LastLinesOf(text, content, n) ==
    /\ Len(text) <= Len(content)
    /\ SubSeq(content, Len(content) - Len(text) + 1, Len(content)) = text
    /\ LineCount(text) <= n
    /\ Len(text) < Len(content) => content[Len(content) - Len(text)] = "\n"

\* The handler has just made its first call of the channel.
SendJustCalled ==
    /\ Len(calls) = 1
    /\ Len(attempts) = 1
    /\ attempts[1].exec = "running"
    /\ attempts[1].timer = "pending"

\* The calls of the channel the handler has made, in order: the send of the
\* marked command, once, and then at most the read of the tab.
AsyncCalls ==
    /\ Len(calls) <= 2
    /\ calls[1].script.kind = "session"
    /\ SendJustCalled => calls[1].script = sendMarkedCommand(req.tab.v, req.command.s, hMarker)
    /\ Len(calls) = 2 =>
           /\ calls[2].script = getTabContentScript(req.tab.v)
           /\ calls[1].state = "resolved"
           /\ Positive(AsyncTailLines)

\* C22: run_command_async calls the channel once to send the marked command,
\* waits only if wait > 0 and after the send has returned, and reads the tab only if
\* tailLines > 0; with wait = 0 and tailLines = 0 a request that succeeds has made
\* the send as its only call; a response after a read mentions an exit code exactly
\* when the END line was in the content read, and its output is made of the last
\* lines, tailLines at most, of what was extracted.
C22_AsyncSteps ==
    /\ [](AsyncServed =>
              /\ AsyncCalls
              /\ pc = "asyncWaiting" =>
                     (Positive(AsyncWait) /\ Len(calls) = 1 /\ calls[1].state = "resolved"))
    /\ [](AsyncSucceeded =>
              /\ calls[1].state = "resolved"
              /\ Len(calls) = (IF Positive(AsyncTailLines) THEN 2 ELSE 1)
              /\ Includes(resp, << " and waited " >>) <=> Positive(AsyncWait)
              /\ Len(calls) = 1 => resp = AsyncSentMessage
              /\ Len(calls) = 2 =>
                     /\ calls[2].state = "resolved"
                     /\ Includes(resp, << " Completed with ", "exit code " >>)
                            <=> EndObserved(calls[2].value, hMarker)
                     /\ LastLinesOf(OutputPart,
                                    extractMarkedContent(calls[2].value, hMarker).content,
                                    AsyncTailLines.v))
    /\ [][AsyncServed => calls'[1].script = calls[1].script]_vars
    /\ [][(AsyncServed /\ pc' = "asyncWaiting") =>
              (pc \in { "asyncSending", "asyncWaiting" } /\ Positive(AsyncWait))]_vars
    /\ [][(AsyncServed /\ Len(calls') = 2 /\ Len(calls) = 1) =>
              /\ Positive(AsyncTailLines)
              /\ pc = (IF Positive(AsyncWait) THEN "asyncWaiting" ELSE "asyncSending")]_vars

\* C22 witness: wait and tailLines are not given; the command was sent, it is on
\* the tab's command line, and the handler has answered after that one call.
C22_Witness ==
    /\ AsyncSucceeded
    /\ req.wait = Undefined
    /\ req.tailLines = Undefined
    /\ Len(calls) = 1
    /\ resp = << "Command \"" >> \o EchoHi \o << "\" sent to tab ", "0", "." >>
    /\ Includes(world.tabs[1].content, MarkedCommand(EchoHi, hMarker))

\* The handler has waited and read: the command had ended, and one line of
\* its output is answered with the exit code.
C22_TailWitness ==
    /\ AsyncSucceeded
    /\ req.wait = Num(1)
    /\ req.tailLines = Num(1)
    /\ Len(calls) = 2
    /\ Includes(resp, << " Completed with ", "exit code ", "7", "." >>)
    /\ OutputPart = << "h", "i" >>
    /\ LineCount(extractMarkedContent(calls[2].value, hMarker).content) > 1

(***************************************************************************)
(* SpecEscape: escapeForAppleScript applied to one short string, the       *)
(* result put between the double quotes of `write text "..."`, the script  *)
(* put on osascript's command line and read by AppleScript.                *)
(***************************************************************************)
\* Length of the string, at most.
MaxTextLen == 3

\* Backslash, double quote, single quote, line break, carriage return, tab, a
\* character outside ASCII, and letters (n is the letter of the \n escape).
EscapeAlphabet == { "\\", "\"", "'", "\n", "\r", "\t", "U+00E9", "a", "n" }

EscapeStrings == UNION { [1..n -> EscapeAlphabet] : n \in 0..MaxTextLen }

InitEscape ==
    /\ ExtractIdle
    /\ ChannelIdle
    /\ req = NoRequest
    /\ pc = "idle"
    /\ hMarker = <<>>
    /\ loc = NoLocals
    /\ resp = <<>>
    /\ inv = <<>>
    /\ files = {}
    /\ trim = NoTrim
    /\ \E str \in EscapeStrings : esc = [NoEscape EXCEPT !.pc = "input", !.str = str]

\* escapeForAppleScript(command), on the way into the template (line 296).
Escape ==
    /\ esc.pc = "input"
    /\ esc' = [esc EXCEPT !.pc = "escaped", !.escaped = escapeForAppleScript(esc.str)]
    /\ UNCHANGED <<extractVars, channelVars, toolVars, pairVars, fileVars, trimVars>>

\* The script with `write text "${escaped}"` goes through the command line of
\* line 138 to osascript, which reads the literal.
RunEscaped ==
    /\ esc.pc = "escaped"
    /\ LET written == WrittenText(<< "write text ", "\"" >> \o esc.escaped \o << "\"" >>)
       IN  esc' = [esc EXCEPT !.pc = "run", !.ok = written.ok, !.text = written.text]
    /\ UNCHANGED <<extractVars, channelVars, toolVars, pairVars, fileVars, trimVars>>

NextEscape == Escape \/ RunEscaped

SpecEscape == InitEscape /\ [][NextEscape]_vars

\* C23: what AppleScript reads from the literal is the string that was escaped,
\* whatever the string is made of.
C23_RoundTrip ==
    esc.pc = "run" => (esc.ok /\ esc.text = esc.str)

\* The same for the strings without a single quote and without a character outside
\* ASCII.
C23_RoundTripOfTheOthers ==
    (esc.pc = "run" /\ \A i \in 1..Len(esc.str) : esc.str[i] \notin { "'" } \cup NonAscii)
        => (esc.ok /\ esc.text = esc.str)

\* A string with a single quote, or with a character outside ASCII, never comes
\* back: the script does not compile.
C23_QuoteNeverComesBack ==
    (esc.pc = "run" /\ \E i \in 1..Len(esc.str) : esc.str[i] \in { "'" } \cup NonAscii)
        => ~esc.ok

(***************************************************************************)
(* SpecSession: requests served one after the other by one process, against*)
(* a window that starts with one tab; the channel answers every call at    *)
(* its first attempt.                                                      *)
(***************************************************************************)
\* No request arrives once this many calls of the channel have been made.
MaxSessionCalls == 3

SessionRequests ==
    { Request("iterm_new_tab", Undefined, Undefined, Undefined, Undefined, Undefined, Undefined),
      Request("iterm_get_all_tabs_info", Undefined, Undefined, Undefined, Undefined, Undefined,
              Undefined),
      Request("iterm_tail_tab_single", Num(1), Undefined, Undefined, Num(1), Undefined,
              Undefined),
      Request("iterm_run_command_blocking", Num(0), Str(EchoHi), Num(1), Undefined, Undefined,
              Undefined) }

InitSession ==
    /\ ExtractIdle
    /\ calls = <<>>
    /\ attempts = <<>>
    /\ world = [running |-> TRUE, windows |-> 1, tabs |-> Tabs(1)]
    /\ faults = 0
    /\ req \in SessionRequests
    /\ pc = "requested"
    /\ hMarker = <<>>
    /\ loc = NoLocals
    /\ inv = <<>>
    /\ esc = NoEscape
    /\ files = {}
    /\ trim = NoTrim
    /\ resp = <<>>

\* The handler of CallToolRequestSchema has returned its response, and is called
\* with the next request (line 719): the locals of the call that ended are gone.
ServeNext ==
    /\ pc = "done"
    /\ Len(calls) < MaxSessionCalls
    /\ req' \in SessionRequests
    /\ pc' = "requested"
    /\ hMarker' = <<>>
    /\ loc' = NoLocals
    /\ resp' = <<>>
    /\ UNCHANGED channelVars

NextSession ==
    \/ (ServeNext /\ UNCHANGED <<extractVars, pairVars, escapeVars, fileVars, trimVars>>)
    \/ (Dispatch /\ UNCHANGED <<extractVars, pairVars, escapeVars, fileVars, trimVars>>)
    \/ (NewTabCreates /\ UNCHANGED <<extractVars, pairVars, escapeVars, fileVars, trimVars>>)
    \/ (NewTabAnswers /\ UNCHANGED <<extractVars, pairVars, escapeVars, fileVars, trimVars>>)
    \/ (AllTabInfoStarts /\ UNCHANGED <<extractVars, pairVars, escapeVars, fileVars, trimVars>>)
    \/ (AllTabInfoCounted /\ UNCHANGED <<extractVars, pairVars, escapeVars, fileVars, trimVars>>)
    \/ (AllTabInfoPushes /\ UNCHANGED <<extractVars, pairVars, escapeVars, fileVars, trimVars>>)
    \/ (TailSingleCounts /\ UNCHANGED <<extractVars, pairVars, escapeVars, fileVars, trimVars>>)
    \/ (TailSingleCounted /\ UNCHANGED <<extractVars, pairVars, escapeVars, fileVars, trimVars>>)
    \/ (TailSingleContentRead /\ UNCHANGED <<extractVars, pairVars, escapeVars, fileVars, trimVars>>)
    \/ (TailSingleAnswers /\ UNCHANGED <<extractVars, pairVars, escapeVars, fileVars, trimVars>>)
    \/ (BlockingSends /\ UNCHANGED <<extractVars, pairVars, escapeVars, fileVars, trimVars>>)
    \/ (BlockingSent /\ UNCHANGED <<extractVars, pairVars, escapeVars, fileVars, trimVars>>)
    \/ (BlockingReads /\ UNCHANGED <<extractVars, pairVars, escapeVars, fileVars, trimVars>>)
    \/ (BlockingAnswers /\ UNCHANGED <<extractVars, pairVars, escapeVars, fileVars, trimVars>>)
    \/ \E a \in Attempt :
           ExecResolves(a) /\ UNCHANGED <<extractVars, toolVars, pairVars, escapeVars, fileVars, trimVars>>
    \/ \E n \in 1..MaxTabs :
           ShellStarts(n) /\ UNCHANGED <<extractVars, toolVars, pairVars, escapeVars, fileVars, trimVars>>
    \/ \E n \in 1..MaxTabs :
           ShellFinishes(n, << "h", "i", "\n" >>, 0)
              /\ UNCHANGED <<extractVars, toolVars, pairVars, escapeVars, fileVars, trimVars>>

SpecSession == InitSession /\ [][NextSession]_vars

\* The handler asks for the number of tabs in this step: a new call of the channel
\* with the count script, not yet answered.
CountQueried ==
    /\ Len(calls') = Len(calls) + 1
    /\ calls'[Len(calls')].script = getTabCountScript
    /\ calls'[Len(calls')].state = "pending"

\* The handler generates its marker in this step and sends the command marked
\* with it.
MarkerGenerated ==
    /\ pc = "called"
    /\ hMarker' \in Markers
    /\ Len(calls') = Len(calls) + 1
    /\ calls'[Len(calls')].script = sendMarkedCommand(req.tab.v, req.command.s, hMarker')

\* C24: a request is served from its arguments and from what the terminal shows
\* while it is served: it starts without a marker, a count or a response of an
\* earlier request; every request that uses the number of tabs asks for it anew, and
\* its answer goes by the tabs the window has then; a marker lives from the send of
\* its request to the response and is gone when the next request starts.
C24_Stateless ==
    /\ [](pc = "requested" => (hMarker = <<>> /\ loc = NoLocals /\ resp = <<>>))
    /\ []((req.tool = "iterm_tail_tab_single" /\ pc = "done") =>
              IF req.tab.v >= Len(world.tabs)
              THEN resp = OutOfBounds(req.tab.v, Len(world.tabs))
              ELSE IndexOf(resp, << "Tab ", "1", " (" >> \o world.tabs[2].name) = 0)
    /\ []((req.tool = "iterm_get_all_tabs_info" /\ pc = "done") =>
              /\ Len(loc.tabs) = Len(world.tabs)
              /\ \A k \in 1..Len(loc.tabs) : loc.tabs[k].name = world.tabs[k].name)
    /\ [][(pc = "called" /\ pc' \in { "counting", "singleCounting" }) => CountQueried]_vars
    /\ [][hMarker' # hMarker =>
              \/ pc' = "requested" /\ hMarker' = <<>>
              \/ MarkerGenerated]_vars

\* C24 witness: tab 1 is asked for after a request that found one tab and a
\* request that opened a second one: the new count is 2 and the tab is shown.
C24_Witness ==
    /\ req.tool = "iterm_tail_tab_single"
    /\ pc = "done"
    /\ Len(calls) = 5
    /\ calls[1].script = getTabCountScript
    /\ calls[1].value = << "1" >>
    /\ calls[2].script = createNewTabScript
    /\ calls[3].script = getTabCountScript
    /\ calls[3].value = << "2" >>
    /\ IndexOf(resp, << "Tab ", "1", " (" >>) = 0

(***************************************************************************)
(* SpecTail: one tail_tab_single or tail_tab_all request, for the lines    *)
(* arguments 0, 1, 2 and none, against tabs of one to four lines; the      *)
(* channel answers every call at its first attempt.                        *)
(***************************************************************************)
TailContents ==
    { << "a" >>,
      << "a", "\n", "b" >>,
      << "a", "\n", "b", "\n", "c", "\n" >> \o Prompt }

TailLineArgs == { Undefined, Num(0), Num(1), Num(2) }

TailRequests ==
    { Request("iterm_tail_tab_single", Num(0), Undefined, Undefined, lines, Undefined,
              Undefined) : lines \in TailLineArgs }
    \cup { Request("iterm_tail_tab_all", Undefined, Undefined, Undefined, lines, Undefined,
                   Undefined) : lines \in TailLineArgs }

TailWorlds ==
    { [running |-> TRUE, windows |-> 1,
       tabs |-> [k \in 1..n |-> [name |-> TabName(k), content |-> c[k], jobs |-> <<>>,
                                 ctl |-> <<>>]]] :
          n \in 1..MaxTabs, c \in [1..MaxTabs -> TailContents] }

InitTail ==
    /\ ExtractIdle
    /\ calls = <<>>
    /\ attempts = <<>>
    /\ world \in TailWorlds
    /\ faults = 0
    /\ req \in TailRequests
    /\ pc = "requested"
    /\ hMarker = <<>>
    /\ loc = NoLocals
    /\ inv = <<>>
    /\ esc = NoEscape
    /\ files = {}
    /\ trim = NoTrim
    /\ resp = <<>>

NextTail ==
    \/ (Dispatch /\ UNCHANGED <<extractVars, pairVars, escapeVars, fileVars, trimVars>>)
    \/ (AllTabInfoStarts /\ UNCHANGED <<extractVars, pairVars, escapeVars, fileVars, trimVars>>)
    \/ (AllTabInfoCounted /\ UNCHANGED <<extractVars, pairVars, escapeVars, fileVars, trimVars>>)
    \/ (AllTabInfoPushes /\ UNCHANGED <<extractVars, pairVars, escapeVars, fileVars, trimVars>>)
    \/ (TailSingleCounts /\ UNCHANGED <<extractVars, pairVars, escapeVars, fileVars, trimVars>>)
    \/ (TailSingleCounted /\ UNCHANGED <<extractVars, pairVars, escapeVars, fileVars, trimVars>>)
    \/ (TailSingleContentRead /\ UNCHANGED <<extractVars, pairVars, escapeVars, fileVars, trimVars>>)
    \/ (TailSingleAnswers /\ UNCHANGED <<extractVars, pairVars, escapeVars, fileVars, trimVars>>)
    \/ \E a \in Attempt :
           ExecResolves(a) /\ UNCHANGED <<extractVars, toolVars, pairVars, escapeVars, fileVars, trimVars>>

SpecTail == InitTail /\ [][NextTail]_vars

\* The last n lines of a content, all of it if it has no more; no line for n = 0.
TheLastLines(content, n) ==
    LET breaks == SelectSeq(Positions(content), LAMBDA i : content[i] = "\n")
        count  == Len(breaks) + 1
    IN  IF n = 0 THEN <<>>
        ELSE IF n >= count THEN content
        ELSE SubSeq(content, breaks[count - n] + 1, Len(content))

\* The answer of tail_tab_all that shows the last n lines of every tab.
RECURSIVE TheTailOfAll(_, _, _)
TheTailOfAll(tabs, k, n) ==
    << "========== TAB " >> \o IntToStr(k - 1) \o << ": " >> \o tabs[k].name
       \o << " ==========", "\n", "\n" >> \o TheLastLines(Trim(tabs[k].content), n)
       \o (IF k = Len(tabs) THEN <<>> ELSE Separator \o TheTailOfAll(tabs, k + 1, n))

\* The answer of tail_tab_single that shows the last n lines of the tab.
TheTailOfSingle(tabs, i, n) ==
    << "Tab " >> \o IntToStr(i) \o << " (" >> \o tabs[i + 1].name \o << "):", "\n", "\n" >>
       \o TheLastLines(Trim(tabs[i + 1].content), n)

\* The answers to the request that is being served, for its lines argument, and
\* for the number of lines that stands in when it is not supplied.
TailAnswer(lines, default) ==
    LET n == IF lines.t = "undefined" THEN default ELSE lines.v
    IN  IF req.tool = "iterm_tail_tab_single"
        THEN TheTailOfSingle(world.tabs, req.tab.v, n)
        ELSE TheTailOfAll(world.tabs, 1, n)

Tailed == pc = "done" /\ req.tool \in { "iterm_tail_tab_single", "iterm_tail_tab_all" }

\* C25: for every valid lines argument N, 0 included, tail_tab_single answers
\* with the last N lines of the tab's content, and tail_tab_all with the last N
\* lines of every tab, where N is 20 only if lines is not supplied (50 for
\* tail_tab_single).
C25_LastLines ==
    Tailed =>
        resp = TailAnswer(req.lines, IF req.tool = "iterm_tail_tab_single" THEN 50 ELSE 20)

\* The same for N >= 1 or not supplied.
C25_LastLinesIfPositive ==
    (Tailed /\ req.lines # Num(0)) =>
        resp = TailAnswer(req.lines, IF req.tool = "iterm_tail_tab_single" THEN 50 ELSE 20)

\* With lines = 0, tail_tab_single answers with the whole content, and tail_tab_all
\* with the last 20 lines of every tab.
C25_ZeroLines ==
    (Tailed /\ req.lines = Num(0)) =>
        resp = TailAnswer(Undefined, IF req.tool = "iterm_tail_tab_single" THEN 50 ELSE 20)

\* The attempts whose osascript run has not ended.
InFlight == { a \in Attempt : attempts[a].exec = "running" }

\* C26: of the attempts of one runAppleScript call, at most one has its
\* osascript run under way at any time.
C26_OneAttemptInFlight ==
    \A c \in 1..Len(calls) : Cardinality({ a \in InFlight : attempts[a].call = c }) <= 1

\* The same as long as no timeout of the call has fired: the attempts that follow
\* a transient error start after the run before them has ended.
C26_OneInFlightUnlessTimedOut ==
    \A c \in 1..Len(calls) :
        (\A a \in Attempt : attempts[a].call = c => attempts[a].timer # "fired")
            => Cardinality({ a \in InFlight : attempts[a].call = c }) <= 1

\* In this step an attempt is started for a call that has had an attempt before.
ReAttemptStarts ==
    /\ Len(attempts') = Len(attempts) + 1
    /\ \E a \in Attempt : attempts[a].call = attempts'[Len(attempts')].call

\* The attempt started in this step follows the 500 ms pause of an attempt of its
\* call, which ends in this step, and has one retry less than that one.
StartsAfterPause ==
    \E a \in Attempt :
        /\ attempts[a].pause = "waiting"
        /\ attempts'[a].pause = "over"
        /\ attempts'[Len(attempts')].call = attempts[a].call
        /\ attempts'[Len(attempts')].rem = attempts[a].rem - 1

\* The attempt started in this step is started by the timeout callback of an
\* attempt of its call, in the step in which the timer fires, and has one retry
\* less than that one.
StartsAtTimeout ==
    \E a \in Attempt :
        /\ attempts[a].timer = "pending"
        /\ attempts'[a].timer = "fired"
        /\ attempts'[Len(attempts')].call = attempts[a].call
        /\ attempts'[Len(attempts')].rem = attempts[a].rem - 1

\* C27: every re-attempt of a call has one retry less than the attempt it
\* follows, and starts when the 500 ms pause after that attempt's failure or
\* timeout is over.
C27_RetryAfterDelay ==
    [][ReAttemptStarts => StartsAfterPause]_vars

\* Every re-attempt has one retry less than the attempt it follows; it starts when
\* the pause after a transient error is over, or in the very step in which the
\* timeout is detected.
C27_RetryAfterDelayOrAtTimeout ==
    [][ReAttemptStarts => (StartsAfterPause \/ StartsAtTimeout)]_vars

\* The pause is taken after transient errors only.
C27_PauseAfterError ==
    \A a \in Attempt : attempts[a].pause # "none" =>
        (attempts[a].exec = "error" /\ IsTransient(attempts[a].text))

\* The call invocation k is awaiting has an attempt of its own in progress: a
\* process that runs, a pause that is counted down or a timer that is set.
ChannelAtWork(k) ==
    \E a \in Attempt :
        /\ attempts[a].call = inv[k].call
        /\ \/ attempts[a].exec = "running"
           \/ attempts[a].pause = "waiting"
           \/ attempts[a].timer = "pending"

\* C28: whatever the other invocation is doing, on the same tab, a call an
\* invocation awaits is at work in the channel, an invocation whose send has
\* settled goes on, and one that is in its wait can end it and make its read:
\* no step of an invocation waits for the other one, so that the second can
\* send, wait, read and return while the first is still in its wait.
C28_NotSerialized ==
    \A k \in Invocations :
        /\ (inv[k].pc \in { "sending", "reading" } /\ calls[inv[k].call].state = "pending")
               => ChannelAtWork(k)
        /\ (inv[k].pc = "sending" /\ calls[inv[k].call].state # "pending")
               => ENABLED PairSent(k)
        /\ inv[k].pc = "waiting" => ENABLED PairReads(k)

\* C28 witness: the first invocation has sent its command and is in its wait;
\* the second, on the same tab, has made its send after that, has waited, read
\* and returned.
C28_Witness ==
    /\ inv[1].pc = "waiting"
    /\ inv[2].pc = "done"
    /\ inv[1].tab = inv[2].tab
    /\ Len(calls) = 3
    /\ calls[1].script = sendMarkedCommand(inv[1].tab, inv[1].command, inv[1].marker)
    /\ calls[2].script = sendMarkedCommand(inv[2].tab, inv[2].command, inv[2].marker)
    /\ calls[3].script = getTabContentScript(inv[2].tab)
    /\ Includes(inv[2].resp, << "exit code " >>)

(***************************************************************************)
(* SpecFile: one call of run_command_blocking with a command of two lines, *)
(* against a terminal and the directory of temporary files.                *)
(***************************************************************************)
\* A command of two lines.
TwoLines == True \o << "\n" >> \o False

\* `/tmp/iterm_cmd_${Date.now()}_${crypto.randomBytes(4).toString('hex')}.sh`
TmpFile(now, hex) == << "/tmp/iterm_cmd_" >> \o now \o << "_" >> \o hex \o << ".sh" >>

\* `source ${tmpFile} && rm ${tmpFile}`
SourceAndRemove(tmpFile) == << "source " >> \o tmpFile \o << " && rm " >> \o tmpFile

\* command.replace(/\n/g, '; ')
Collapsed(command) == ReplaceAll(command, "\n", << ";", " " >>)

\* A variant of the fallback that inlines the command as it is.
sendCommandLinesNotCollapsed(tabIndex, command, tmpFile, created) ==
    IF created
    THEN sessionTemplate(tabIndex, << "write text ", "\"" >> \o SourceAndRemove(tmpFile) \o << "\"" >>)
    ELSE sessionTemplate(tabIndex,
             << "write text ", "\"" >> \o escapeForAppleScript(command) \o << "\"" >>)

\* AS_HELPERS.sendCommand(tabIndex, command), for a command with a line break:
\* the script that has the file sourced and removed when writeFileSync has
\* created it, and the script that writes the collapsed command when it threw.
sendCommandLines(tabIndex, command, tmpFile, created) ==
    IF created
    THEN sessionTemplate(tabIndex, << "write text ", "\"" >> \o SourceAndRemove(tmpFile) \o << "\"" >>)
    ELSE sessionTemplate(tabIndex,
             << "write text ", "\"" >> \o escapeForAppleScript(Collapsed(command)) \o << "\"" >>)

\* runCommandBlocking with a command of several lines: the arguments pass, a
\* marker is generated and the marked command is sent (lines 483-484);
\* sendCommand writes it to a temporary file, or fails to (lines 283-294).
BlockingSendsLines ==
    /\ pc = "called" /\ req.tool = "iterm_run_command_blocking"
    /\ validateTabIndex(req.tab).valid
    /\ validateCommand(req.command).valid
    /\ validateWaitTime(req.wait).valid
    /\ Includes(req.command.s, << "\n" >>)
    /\ \E hex \in HexValues, fileHex \in HexValues, created \in BOOLEAN :
          LET marker  == generateMarker(hex, Now)
              marked  == MarkedCommand(req.command.s, marker)
              tmpFile == TmpFile(Now, fileHex)
          IN  /\ hMarker' = marker
              /\ files' = IF created
                          THEN files \cup { [name |-> tmpFile, content |-> marked] }
                          ELSE files
              /\ CallRunAppleScript(sendCommandLines(req.tab.v, marked, tmpFile, created),
                                    DefaultRetries)
    /\ pc' = "sending"
    /\ UNCHANGED <<req, loc, resp, world, faults>>

\* Whether a command line sources a file, and the file it names.
IsSourceLine(line) == line # <<>> /\ line[1] = "source "

SourcedFile(line) ==
    SubSeq(line, 2, (CHOOSE i \in 1..Len(line) : line[i] = " && rm ") - 1)

OnDisk(name) == \E f \in files : f.name = name

FileNamed(name) == CHOOSE f \in files : f.name = name

NoSuchFile(name) == << "source: no such file or directory: " >> \o name \o << "\n" >>

\* The shell takes a `source F && rm F` line: it starts on the commands of the
\* file, or, the file not being there, reports it, leaves the rm out and prompts.
ShellSources(n) ==
    /\ n \in 1..Len(world.tabs)
    /\ world.tabs[n].jobs # <<>>
    /\ ~Head(world.tabs[n].jobs).started
    /\ IsSourceLine(Head(world.tabs[n].jobs).line)
    /\ LET name == SourcedFile(Head(world.tabs[n].jobs).line)
       IN  world' = IF OnDisk(name)
                    THEN [world EXCEPT !.tabs[n].content = @ \o FirstEcho(FileNamed(name).content),
                                       !.tabs[n].jobs[1].started = TRUE]
                    ELSE [world EXCEPT !.tabs[n].content = @ \o NoSuchFile(name) \o Prompt,
                                       !.tabs[n].jobs = Tail(@)]
    /\ UNCHANGED <<calls, attempts, faults, files>>

\* The commands of the sourced file end, the last of them the echo of the END
\* token, whose status is 0: the rm runs, and the shell prompts.
ShellSourced(n, status) ==
    /\ n \in 1..Len(world.tabs)
    /\ world.tabs[n].jobs # <<>>
    /\ Head(world.tabs[n].jobs).started
    /\ IsSourceLine(Head(world.tabs[n].jobs).line)
    /\ LET name == SourcedFile(Head(world.tabs[n].jobs).line)
       IN  /\ OnDisk(name)
           /\ world' = [world EXCEPT !.tabs[n].content =
                                          @ \o LastEcho(FileNamed(name).content, status) \o Prompt,
                                      !.tabs[n].jobs = Tail(@)]
           /\ files' = { f \in files : f.name # name }
    /\ UNCHANGED <<calls, attempts, faults>>

\* The head of the command lines of tab n is a line typed as it is.
PlainLineAhead(n) ==
    /\ n \in 1..Len(world.tabs)
    /\ world.tabs[n].jobs # <<>>
    /\ ~IsSourceLine(Head(world.tabs[n].jobs).line)

FileWorlds == { [running |-> TRUE, windows |-> 1, tabs |-> Tabs(1)], NoWorld }

InitFile ==
    /\ ExtractIdle
    /\ calls = <<>>
    /\ attempts = <<>>
    /\ world \in FileWorlds
    /\ faults = 0
    /\ req \in [tool : {"iterm_run_command_blocking"}, tab : { Num(0), Num(1) },
                command : { Str(TwoLines) }, wait : { Num(1) }, lines : {Undefined},
                tailLines : {Undefined}, letter : {Undefined}]
    /\ pc = "called"
    /\ hMarker = <<>>
    /\ loc = NoLocals
    /\ inv = <<>>
    /\ esc = NoEscape
    /\ files = {}
    /\ trim = NoTrim
    /\ resp = <<>>

NextFile ==
    \/ (BlockingSendsLines /\ UNCHANGED <<extractVars, pairVars, escapeVars, trimVars>>)
    \/ (BlockingSent /\ UNCHANGED <<extractVars, pairVars, escapeVars, fileVars, trimVars>>)
    \/ (BlockingReads /\ UNCHANGED <<extractVars, pairVars, escapeVars, fileVars, trimVars>>)
    \/ (BlockingAnswers /\ UNCHANGED <<extractVars, pairVars, escapeVars, fileVars, trimVars>>)
    \/ \E a \in Attempt :
           TimeoutFires(a, MaxToolFaults) /\ UNCHANGED <<extractVars, toolVars, pairVars, escapeVars, fileVars, trimVars>>
    \/ \E a \in Attempt : ExecResolves(a) /\ UNCHANGED <<extractVars, toolVars, pairVars, escapeVars, fileVars, trimVars>>
    \/ \E a \in Attempt : ExecRejects(a) /\ UNCHANGED <<extractVars, toolVars, pairVars, escapeVars, fileVars, trimVars>>
    \/ \E a \in Attempt, fault \in ChannelFaults :
           ExecFaults(a, fault, MaxToolFaults) /\ UNCHANGED <<extractVars, toolVars, pairVars, escapeVars, fileVars, trimVars>>
    \/ \E a \in Attempt : PauseOver(a) /\ UNCHANGED <<extractVars, toolVars, pairVars, escapeVars, fileVars, trimVars>>
    \/ \E n \in 1..MaxTabs : ShellSources(n) /\ UNCHANGED <<extractVars, toolVars, pairVars, escapeVars, trimVars>>
    \/ \E n \in 1..MaxTabs, status \in 0..1 :
           ShellSourced(n, status) /\ UNCHANGED <<extractVars, toolVars, pairVars, escapeVars, trimVars>>
    \/ \E n \in 1..MaxTabs :
           PlainLineAhead(n) /\ ShellStarts(n) /\ UNCHANGED <<extractVars, toolVars, pairVars, escapeVars, fileVars, trimVars>>
    \/ \E n \in 1..MaxTabs, status \in 0..1 :
           PlainLineAhead(n) /\ ShellFinishes(n, <<>>, status) /\ UNCHANGED <<extractVars, toolVars, pairVars, escapeVars, fileVars, trimVars>>

SpecFile == InitFile /\ [][NextFile]_vars

\* The marked command of the request.
MarkedLines == MarkedCommand(req.command.s, hMarker)

\* The script of the send is the one that has tmpFile sourced and removed, and
\* that is what osascript types into the tab.
SendsFromFile(script, tmpFile) ==
    /\ script = sessionTemplate(req.tab.v,
                    << "write text ", "\"" >> \o SourceAndRemove(tmpFile) \o << "\"" >>)
    /\ WrittenText(script.op) = [ok |-> TRUE, text |-> SourceAndRemove(tmpFile)]

\* The script of the send writes the marked command, escaped, with "; " where
\* it has its line breaks, and that is what osascript types into the tab.
SendsCollapsed(script, marked) ==
    /\ script = sessionTemplate(req.tab.v,
                    << "write text ", "\"" >>
                       \o escapeForAppleScript(ReplaceAll(marked, "\n", << ";", " " >>))
                       \o << "\"" >>)
    /\ WrittenText(script.op) = [ok |-> TRUE, text |-> ReplaceAll(marked, "\n", << ";", " " >>)]
    /\ ~Includes(WrittenText(script.op).text, << "\n" >>)

\* The step in which the handler sends its command.
SendStep == pc = "called" /\ pc' = "sending"

\* C29: a command with a line break is sent in one of two ways.  When the
\* temporary file is created, it holds the marked command and the script has the
\* session source the file and then remove it; when it cannot be created, no
\* file is written, the handler does not fail, and the script writes the marked
\* command with every line break replaced by "; " and then escaped.  Either way
\* the call of the channel is made and the handler awaits it.
C29_SendOfLines ==
    /\ [][SendStep =>
            /\ Len(calls') = 1
            /\ calls'[1].state = "pending"
            /\ \/ \E fileHex \in HexValues :
                     /\ files' = { [name |-> TmpFile(Now, fileHex), content |-> MarkedLines'] }
                     /\ SendsFromFile(calls'[1].script, TmpFile(Now, fileHex))
               \/ /\ files' = {}
                  /\ SendsCollapsed(calls'[1].script, MarkedLines')]_vars
    /\ [](pc # "called" => calls # <<>>)
    /\ [][calls # <<>> => calls'[1].script = calls[1].script]_vars

\* C29 witness: the file could not be created; the collapsed command was typed
\* into the tab as one line, the shell ran it, and the handler answered from it.
C29_Witness ==
    /\ pc = "done"
    /\ files = {}
    /\ calls[1].script.op[3] # "source "
    /\ calls[1].state = "resolved"
    /\ Includes(world.tabs[1].content, ReplaceAll(MarkedLines, "\n", << ";", " " >>))
    /\ Includes(resp, << "exit code " >>)

\* C29 witness of the other branch: the file was created and the line that
\* sources and removes it was typed into the tab.
C29_FileWitness ==
    /\ pc = "waiting"
    /\ \E f \in files : /\ f.content = MarkedLines
                        /\ Includes(world.tabs[1].content, SourceAndRemove(f.name))

\* Nothing is left to happen: the handler has answered, no osascript run, pause
\* or timer is outstanding, and the shell of every tab has run what was typed.
Quiet ==
    /\ pc = "done"
    /\ \A a \in Attempt : /\ attempts[a].exec # "running"
                          /\ attempts[a].pause # "waiting"
                          /\ attempts[a].timer # "pending"
    /\ \A n \in 1..Len(world.tabs) : world.tabs[n].jobs = <<>>

\* The line that sources and removes the file was typed into a tab.
Typed(name) ==
    \E n \in 1..Len(world.tabs) : Includes(world.tabs[n].content, SourceAndRemove(name))

\* A shell was told to source a file that was not there.
SourcedWhenGone ==
    \E n \in 1..Len(world.tabs) :
        Includes(world.tabs[n].content, << "source: no such file or directory: " >>)

\* C30: every temporary file created for a command of several lines is deleted
\* in the end: once the handler has answered and nothing is left to run, no
\* such file is on disk, whether the send has succeeded or not.
C30_NoFileLeft == Quiet => files = {}

\* C30, its second part: no shell is told to source a file after the file was
\* deleted.
C30_NeverSourcedWhenGone == ~SourcedWhenGone

\* C30, as far as it holds: a file whose line was typed into a tab is deleted
\* once the shell has run what was typed; a file still on disk when nothing is
\* left to run is one whose line never reached a tab.
C30_DeletedIfTyped == Quiet => \A f \in files : ~Typed(f.name)

\* C30, as far as it holds: a file is sourced when it is gone only after its
\* line was typed twice, by two osascript runs of the one send.
C30_GoneOnlyIfTypedTwice ==
    SourcedWhenGone =>
        Cardinality({ a \in Attempt : attempts[a].call = 1 /\ attempts[a].exec = "ok" }) >= 2

\* The file is on disk for good: the send was rejected for a tab out of range.
C30_LeftOnDisk ==
    /\ Quiet
    /\ files # {}
    /\ Includes(resp, << "Tab index out of range" >>)

\* The number of places at which pat stands in text.
Occurrences(text, pat) ==
    Cardinality({ i \in 1..(Len(text) - Len(pat) + 1) :
                     text[i] = pat[1] /\ SubSeq(text, i, i + Len(pat) - 1) = pat })

\* How often the marked command line of the request was typed into tab n, and
\* how often a shell has printed its START token there.
TimesTyped(n) ==
    Occurrences(world.tabs[n].content,
                MarkedCommand(req.command.s, hMarker) \o << "\n" >>)

TimesStarted(n) ==
    Occurrences(world.tabs[n].content, hMarker \o StartSuffix \o << "\n" >>)

\* C31: one invocation of run_command_blocking or run_command_async has its
\* marked command typed into the tab at most once, retries of the send
\* included, and the tab never shows two START tokens printed for its marker.
C31_AtMostOnce ==
    hMarker # <<>> =>
        \A n \in 1..Len(world.tabs) : TimesTyped(n) <= 1 /\ TimesStarted(n) <= 1

\* C31, as far as it holds: the line is typed once for every osascript run of
\* the send that has ended well, and more than once only when an attempt of the
\* send had timed out before.
C31_OncePerRun ==
    hMarker # <<>> =>
        \A n \in 1..Len(world.tabs) :
            LET typed == TimesTyped(n)
            IN  /\ TimesStarted(n) <= typed
                /\ typed <= Cardinality({ a \in Attempt : attempts[a].call = 1
                                                          /\ attempts[a].exec = "ok" })
                /\ typed > 1 => \E a \in Attempt : attempts[a].call = 1
                                                   /\ attempts[a].timer = "fired"

\* The line was typed twice and both were run: two START tokens of the marker.
C31_TypedTwice ==
    /\ hMarker # <<>>
    /\ req.tool = "iterm_run_command_async"
    /\ Len(world.tabs) >= 1
    /\ TimesTyped(1) = 2
    /\ TimesStarted(1) = 2

(***************************************************************************)
(* SpecLive: one call of runAppleScript with the default number of         *)
(* retries, whose osascript runs end well, end badly, or never end, and    *)
(* whose timers fire in the end.                                           *)
(***************************************************************************)
\* The attempts one call can make at most: an attempt can have two successors,
\* one started by its timer and one by its late transient failure.
MostAttempts == 2 ^ (DefaultRetries + 1) - 1

\* The timeouts and channel failures of one call, at most: one of each for
\* every attempt.
MostFaults == 2 * MostAttempts

InitLive ==
    /\ ExtractIdle
    /\ ToolIdle
    /\ calls = <<>>
    /\ attempts = <<>>
    /\ world \in { [running |-> TRUE, windows |-> 1, tabs |-> Tabs(1)], NoWorld }
    /\ faults = 0

InvokeDefault ==
    /\ calls = <<>>
    /\ CallRunAppleScript(getTabCountScript, DefaultRetries)
    /\ UNCHANGED <<world, faults>>

\* A timer of 10 s expires; the pause of 500 ms is over.
TimerExpires ==
    \E a \in Attempt :
        TimeoutFires(a, MostFaults) /\ UNCHANGED <<extractVars, toolVars, pairVars, escapeVars, fileVars, trimVars>>

PauseExpires ==
    \E a \in Attempt : PauseOver(a) /\ UNCHANGED <<extractVars, toolVars, pairVars, escapeVars, fileVars, trimVars>>

NextLive ==
    \/ (InvokeDefault /\ UNCHANGED <<extractVars, toolVars, pairVars, escapeVars, fileVars, trimVars>>)
    \/ TimerExpires
    \/ PauseExpires
    \/ \E a \in Attempt : ExecResolves(a) /\ UNCHANGED <<extractVars, toolVars, pairVars, escapeVars, fileVars, trimVars>>
    \/ \E a \in Attempt : ExecRejects(a) /\ UNCHANGED <<extractVars, toolVars, pairVars, escapeVars, fileVars, trimVars>>
    \/ \E a \in Attempt, fault \in ChannelFaults :
           ExecFaults(a, fault, MostFaults) /\ UNCHANGED <<extractVars, toolVars, pairVars, escapeVars, fileVars, trimVars>>

\* The call is made, and timers that are set fire; nothing is assumed of the
\* osascript runs, any of which may never end.
SpecLive ==
    /\ InitLive /\ [][NextLive]_vars
    /\ WF_vars(InvokeDefault /\ UNCHANGED <<extractVars, toolVars, pairVars, escapeVars, fileVars, trimVars>>)
    /\ WF_vars(TimerExpires)
    /\ WF_vars(PauseExpires)

Settled == calls # <<>> /\ calls[1].state # "pending"

\* C32: the promise of runAppleScript settles in the end, whichever of its
\* osascript runs end well, end badly or never end, as long as timers fire; and
\* once settled it stays as it is: it settles exactly once.
C32_Settles ==
    /\ <>Settled
    /\ [][Settled => calls' = calls]_vars
    /\ [](faults < MostFaults \/ \A a \in Attempt : attempts[a].timer # "pending")

\* C32 witness: no osascript run has ever ended, and the promise was rejected by
\* the timer of the last attempt.
C32_Witness ==
    /\ Settled
    /\ \A a \in Attempt : attempts[a].exec = "running"
    /\ Len(attempts) = DefaultRetries + 1
    /\ calls[1].kind = "timeout"

\* resolve is called on a promise that was rejected already: attempt 1 ends well
\* after the last timer has rejected the promise, which stays rejected.
C32_SettledTwiceWitness ==
    /\ Settled
    /\ calls[1].state = "rejected"
    /\ calls[1].by # 1
    /\ attempts[1].exec = "ok"

\* The request is one of the two that run a command, and its send, the first
\* call it makes, was rejected.
SendFailed ==
    /\ req.tool \in { "iterm_run_command_blocking", "iterm_run_command_async" }
    /\ calls # <<>>
    /\ calls[1].state = "rejected"

\* The error text of the catch block of the handler of the request.
SendErrorText ==
    (IF req.tool = "iterm_run_command_blocking"
     THEN << "Error executing command in tab " >>
     ELSE << "Error running command in tab " >>)
       \o IntToStr(req.tab.v) \o << ": " >> \o calls[1].value

\* C33: when the send of run_command_blocking or run_command_async has failed,
\* the next step of the handler is its answer, the error text with the message
\* of the failure: the handler does not wait and does not read the tab (the
\* send stays its only call), and its answer names neither an exit code nor a
\* command that is still running.
C33_SendFailureAnswered ==
    /\ [](SendFailed =>
            /\ pc \in { "sending", "asyncSending", "done" }
            /\ Len(calls) = 1
            /\ pc = "done" =>
                  /\ resp = SendErrorText
                  /\ ~Includes(resp, << "exit code " >>)
                  /\ ~Includes(resp, << "Command is still running in tab " >>))
    /\ [][(SendFailed /\ pc' # pc) => (pc' = "done" /\ calls' = calls /\ resp' = SendErrorText)]_vars

\* C33 witness: the send of run_command_blocking was rejected, iTerm2 not
\* running after every retry, and the handler has answered with the error.
C33_Witness ==
    /\ SendFailed
    /\ req.tool = "iterm_run_command_blocking"
    /\ calls[1].kind = "unavailable"
    /\ pc = "done"
    /\ resp = SendErrorText

\* The same for run_command_async, the send having failed in the channel.
C33_AsyncWitness ==
    /\ SendFailed
    /\ req.tool = "iterm_run_command_async"
    /\ calls[1].kind = "failed"
    /\ pc = "done"
    /\ resp = SendErrorText

(***************************************************************************)
(* SpecParse: one get_all_tabs_info request against a window with one tab, *)
(* whose name and content are made of letters, a prompt character and the  *)
(* words of the tab-info format themselves.                                *)
(***************************************************************************)
\* Length of the tab's name and of its content, at most.
MaxNameLen == 2

MaxInfoLen == 2

\* The words of the format, each one element of a text.
FormatWords == { "TAB_NAME:", "TAB_IS_RUNNING:", "true", "false", "TAB_CONTENT:" }

\* A name is one line.
ParseNames == UNION { [1..n -> FormatWords \cup { "a" }] : n \in 0..MaxNameLen }

ParseContents == UNION { [1..n -> FormatWords \cup { "a", "$", "\n" }] : n \in 0..MaxInfoLen }

InitParse ==
    /\ ExtractIdle
    /\ calls = <<>>
    /\ attempts = <<>>
    /\ \E name \in ParseNames, content \in ParseContents :
           world = [running |-> TRUE, windows |-> 1,
                    tabs |-> << [name |-> name, content |-> content, jobs |-> <<>>,
                                 ctl |-> <<>>] >>]
    /\ faults = 0
    /\ req = Request("iterm_get_all_tabs_info", Undefined, Undefined, Undefined, Undefined,
                     Undefined, Undefined)
    /\ pc = "requested"
    /\ hMarker = <<>>
    /\ loc = NoLocals
    /\ inv = <<>>
    /\ esc = NoEscape
    /\ files = {}
    /\ trim = NoTrim
    /\ resp = <<>>

SpecParse == InitParse /\ [][NextInfo]_vars

\* The running flag the script puts into its text: not hasPrompt.
EmittedRunning(content) == ~PromptAtEnd(content)

\* What the script has emitted for the tab comes back from parseSingleTabInfo.
NameBack == loc.tabs[1].name = world.tabs[1].name

FlagBack == loc.tabs[1].isRunning = EmittedRunning(world.tabs[1].content)

ContentBack == loc.tabs[1].content = Trim(world.tabs[1].content)

\* The name holds a word that the parser looks for before it reaches the
\* content: the start of the content, or a running flag.
NameHoldsContentWord == \E i \in 1..Len(world.tabs[1].name) : world.tabs[1].name[i] = "TAB_CONTENT:"

NameHoldsFlag ==
    \E i \in 1..(Len(world.tabs[1].name) - 1) :
        /\ world.tabs[1].name[i] = "TAB_IS_RUNNING:"
        /\ world.tabs[1].name[i + 1] \in { "true", "false" }

\* C34: the name, the running flag and the content (trimmed) that the tab-info
\* script emits are what parseSingleTabInfo returns, also when the name or the
\* content holds the words of the format.
C34_RoundTrip == Listed => (NameBack /\ FlagBack /\ ContentBack)

\* C34, as far as it holds: the name comes back always; the flag comes back
\* unless the name holds a running flag of its own, and the content unless the
\* name holds the word that starts the content; the words of the format in the
\* content do no harm.
C34_RoundTripUnlessInName ==
    Listed => /\ NameBack
              /\ ~NameHoldsFlag => FlagBack
              /\ ~NameHoldsContentWord => ContentBack

\* The content holds words of the format and comes back as it is.
C34_ContentWitness ==
    /\ Listed
    /\ world.tabs[1].content = << "TAB_CONTENT:", "TAB_NAME:" >>
    /\ world.tabs[1].name = << "a" >>
    /\ NameBack /\ FlagBack /\ ContentBack

\* The name holds the word that starts the content: the content that comes back
\* begins in the middle of the name.
C34_NameWitness ==
    /\ Listed
    /\ world.tabs[1].name = << "TAB_CONTENT:", "a" >>
    /\ world.tabs[1].content = << "$" >>
    /\ loc.tabs[1].content # << "$" >>
    /\ loc.tabs[1].content[1] = "a"

(***************************************************************************)
(* SpecTrim: trimOutput applied to one text, for every short text and      *)
(* every small size, and for the texts and sizes of the handlers: output   *)
(* about maxSize long, and the answer of tail_tab_all for two tabs.        *)
(***************************************************************************)
\* Length of a short text, at most, and the sizes it is trimmed to.
MaxTrimLen == 4

MaxTrimSize == 3

ShortTexts == UNION { [1..n -> { "a", "\n" }] : n \in 0..MaxTrimLen }

\* Output of n characters.
OutputOf(n) == [i \in 1..n |-> "x"]

\* Output about as long as the handlers allow.
LongTexts == { OutputOf(n) : n \in { DefaultMaxSize - 1, DefaultMaxSize, DefaultMaxSize + 1 } }

\* What TailTabAll formats for two tabs before it trims the whole (lines 412-419).
TailAllTexts ==
    { TailAllText(<< [index |-> 0, name |-> TabName(1), isRunning |-> FALSE, content |-> c1],
                     [index |-> 1, name |-> TabName(2), isRunning |-> FALSE, content |-> c2] >>,
                  20) :
          c1 \in LongTexts, c2 \in LongTexts \cup { << "a" >> } }

TrimInputs ==
    { [content |-> c, maxSize |-> m] : c \in ShortTexts, m \in 0..MaxTrimSize }
    \cup { [content |-> c, maxSize |-> DefaultMaxSize] : c \in LongTexts }
    \cup { [content |-> c, maxSize |-> TailAllMaxSize] : c \in TailAllTexts }

InitTrim ==
    /\ ExtractIdle
    /\ ChannelIdle
    /\ req = NoRequest
    /\ pc = "idle"
    /\ hMarker = <<>>
    /\ loc = NoLocals
    /\ resp = <<>>
    /\ inv = <<>>
    /\ esc = NoEscape
    /\ files = {}
    /\ \E input \in TrimInputs :
           trim = [pc |-> "input", content |-> input.content, maxSize |-> input.maxSize,
                   result |-> <<>>]

TrimOutput ==
    /\ trim.pc = "input"
    /\ trim' = [trim EXCEPT !.pc = "trimmed", !.result = trimOutput(trim.content, trim.maxSize)]
    /\ UNCHANGED <<extractVars, channelVars, toolVars, pairVars, escapeVars, fileVars>>

NextTrim == TrimOutput

SpecTrim == InitTrim /\ [][NextTrim]_vars

\* C35: trimOutput returns a text of at most maxSize characters as it is, and
\* of a longer one exactly its first maxSize characters followed by the notice;
\* so what it returns is never longer than maxSize characters and the notice:
\* 5000 for the output in an answer, 10000 for the whole answer of tail_tab_all.
C35_TrimOutput ==
    trim.pc = "trimmed" =>
        /\ Len(trim.content) <= trim.maxSize => trim.result = trim.content
        /\ Len(trim.content) > trim.maxSize =>
              /\ Len(trim.result) = trim.maxSize + Len(TrimmedNote)
              /\ \A i \in 1..trim.maxSize : trim.result[i] = trim.content[i]
              /\ \A i \in 1..Len(TrimmedNote) : trim.result[trim.maxSize + i] = TrimmedNote[i]
        /\ Len(trim.result) <= trim.maxSize + Len(TrimmedNote)

\* C35 witness: the answer of tail_tab_all for two tabs of more than 5000
\* characters each, every tab's output cut at 5000 and the whole cut at 10000.
C35_Witness ==
    /\ trim.pc = "trimmed"
    /\ trim.maxSize = TailAllMaxSize
    /\ Len(trim.content) > TailAllMaxSize
    /\ Len(trim.result) = TailAllMaxSize + Len(TrimmedNote)
    /\ trim.result[1] = "========== TAB "
    /\ Cardinality({ i \in 1..Len(trim.result) : trim.result[i] = TrimmedNote[1] }) = 2

\* Output of exactly 5000 characters is left as it is; of 5001, cut.
C35_EdgeWitness ==
    /\ trim.pc = "trimmed"
    /\ trim.maxSize = DefaultMaxSize
    /\ trim.content = OutputOf(DefaultMaxSize)
    /\ trim.result = trim.content

====
